---------------------------- MODULE Spec2Model ----------------------------
(***************************************************************************)
(* A model of the DataFile core of the Stoner package (src/Stoner/Core.py).*)
(*                                                                         *)
(* Three components are modelled, each with a specification of its own:    *)
(*   Spec     - the load() dispatch over the registered format handlers    *)
(*   SpecTDI  - save() in the TDI format and the TDI parse routine _load() *)
(*   SpecMask - the saved-mask stack (_push_mask / _pop_mask)              *)
(* A specification leaves the variables of the other components at their   *)
(* "off" values.                                                           *)
(***************************************************************************)
EXTENDS Integers, Sequences, FiniteSets, TLC

VARIABLES
    \* ---- load() dispatch
    pc,         \* position of the load() call
    self,       \* the calling DataFile: data, metadata, column_headers, filename
    self0,      \* the calling DataFile as it was when load() was entered
    call,       \* the arguments of the call: filename, filetype, auto_load
    mimetype,   \* what libmagic says of the file ("nomagic": magic not importable)
    idx,        \* position of the for loop in subclasses(DataFile).values()
    failed,     \* the local variable failed
    attempted,  \* the handlers whose _load was called, in call order
    results,    \* what each of those calls did
    error,      \* the exception load() ended with
    \* ---- TDI save / _load
    source,     \* where the file comes from: "save" or "hand"
    tpc,        \* position in the save / load round
    orig,       \* the DataFile that is saved
    file,       \* the file on disc: a sequence of lines, each a sequence of fields
    test,       \* the fresh instance _load fills
    loaded,     \* the instance load() was called on
    terr,       \* the exception _load ended with
    \* ---- mask stack
    mask,       \* the mask on the data: the set of masked cells
    masks,      \* self._masks
    premask,    \* the mask that was on the data when _push_mask was last called
    phase,      \* what the last mask operations were
    \* ---- copies of a DataFile
    heap,       \* the objects the attributes refer to, by address
    dref,       \* the attributes of the DataFile d: the address each refers to
    eref,       \* the attributes of the copy e
    snap,       \* what d held when the copy was made
    cpc,        \* how the copy was made, "made" before there is one
    \* ---- edits of the columns and rows of a DataFile
    df,         \* the DataFile: data, mask, column_headers, setas, metadata
    pre,        \* the DataFile as it was before the last call
    op,         \* the last call and its arguments
    \* ---- an ImageStack
    images,     \* the ImageStack: _stack, _names, _sizes, _metadata
    before,     \* the ImageStack as it was before the last call
    did,        \* the last call, its arguments and how it ended
    \* ---- calls of single functions
    args,       \* the arguments of the call
    ret,        \* what the call returned or raised
    \* ---- _open_filename
    opening     \* the local variables of _open_filename and its position

loadVars == <<pc, self, self0, call, mimetype, idx, failed, attempted, results, error>>
tdiVars == <<source, tpc, orig, file, test, loaded, terr>>
maskVars == <<mask, masks, premask, phase>>
copyVars == <<heap, dref, eref, snap, cpc>>
editVars == <<df, pre, op>>
imageVars == <<images, before, did>>
fnVars == <<args, ret>>
openVars == <<opening>>
laterVars == <<imageVars, fnVars, openVars>>
vars == <<loadVars, tdiVars, maskVars, copyVars, editVars, laterVars>>

(***************************************************************************)
(* Bounds of the model.                                                    *)
(***************************************************************************)
NHandlers == 3      \* registered subclasses of DataFile, DataFile included
MaxRows == 2        \* data rows of a saved DataFile
MaxCols == 2        \* data columns of a saved DataFile
MaxKeys == 3        \* metadata keys of a saved DataFile
MaxLines == 3       \* lines after the first of a hand-written file
MaxStack == 3       \* pushes without a pop
MaxCells == 2       \* cells of the data a mask covers
MaxVal == 1         \* a data value, a metadata value or a header is in 0..MaxVal

Range(s) == {s[i] : i \in 1..Len(s)}

Max(a, b) == IF a >= b THEN a ELSE b

Min(a, b) == IF a <= b THEN a ELSE b

(***************************************************************************)
(* The handler registry: subclasses(DataFile), sorted by priority.         *)
(***************************************************************************)
Handlers == 1..NHandlers

\* DataFile itself is handler 1.
DataFileCls == 1

DataFilePriority == 32

\* The class attribute priority of each handler.
Priority(h) ==
    IF h = DataFileCls THEN DataFilePriority
    ELSE IF h % 2 = 0 THEN 16 + h ELSE 64 - h

\* The class attribute mime_type of each handler.
MimeTypes(h) ==
    IF h = DataFileCls THEN {"text/plain"}
    ELSE IF h % 2 = 0 THEN {"application/octet-stream"}
    ELSE {"text/plain", "application/octet-stream"}

RECURSIVE SortByPriority(_)
SortByPriority(S) ==
    IF S = {} THEN <<>>
    ELSE LET first == CHOOSE h \in S : \A g \in S : Priority(h) <= Priority(g)
         IN <<first>> \o SortByPriority(S \ {first})

\* subclasses(DataFile).values(): the handlers in ascending priority.
Registry == SortByPriority(Handlers)

(***************************************************************************)
(* What a handler's _load makes of a file it accepts.                      *)
(***************************************************************************)
DataOf(h) == 100 + h

HeadersOf(h) == 200 + h

MetadataOf(h) == ("Stoner.class" :> h) @@ ("Title" :> 300 + h)

\* A DataFile as the constructor leaves it.
FreshDataFile ==
    [data |-> 0, metadata |-> ("Stoner.class" :> DataFileCls),
     column_headers |-> 0, filename |-> "old.txt"]

\* A DataFile that an earlier load() filled from "old.txt".
LoadedDataFile ==
    [data |-> DataOf(DataFileCls),
     metadata |-> ("Loaded as" :> DataFileCls) @@ MetadataOf(DataFileCls),
     column_headers |-> HeadersOf(DataFileCls), filename |-> "old.txt"]

Files == {"data.txt", "missing.txt"}

\* path.exists(self.filename)
Exists(f) == f = "data.txt"

FileMimes == {"nomagic", "text/plain", "application/octet-stream"}

\* What a call of _load can do: return the instance, return None, or raise.
Outcomes == {"ok", "None", "StonerLoadError", "UnicodeDecodeError", "OtherError"}

NoFiletype == [kind |-> "none", h |-> 0]

Filetypes ==
    {NoFiletype, [kind |-> "badname", h |-> 0], [kind |-> "foreign", h |-> 0]}
    \cup {[kind |-> k, h |-> h] : k \in {"class", "instance"}, h \in Handlers}

AutoLoadArgs == {"default", "true", "false"}

NoError == [kind |-> "none", names |-> {}]

AutoLoadAlways(c) == c.auto_load # "false"

\* auto_load = kargs.pop("auto_load", filetype is None)
AutoLoad(c) ==
    IF c.auto_load = "default" THEN c.filetype.kind = "none"
    ELSE c.auto_load = "true"

LoadOff ==
    /\ pc = "off"
    /\ self = FreshDataFile
    /\ self0 = FreshDataFile
    /\ call = [filename |-> "data.txt", filetype |-> NoFiletype, auto_load |-> "default"]
    /\ mimetype = "nomagic"
    /\ idx = 0
    /\ failed = TRUE
    /\ attempted = <<>>
    /\ results = <<>>
    /\ error = NoError

LoadInit ==
    /\ pc = "idle"
    /\ self \in {FreshDataFile, LoadedDataFile}
    /\ self0 = self
    /\ call = [filename |-> "data.txt", filetype |-> NoFiletype, auto_load |-> "default"]
    /\ mimetype = "nomagic"
    /\ idx = 0
    /\ failed = TRUE
    /\ attempted = <<>>
    /\ results = <<>>
    /\ error = NoError

\* load(): the arguments, the filetype name, the filename and the existence check.
LoadResolve ==
    /\ pc = "idle"
    /\ \E f \in Files, ft \in Filetypes, a \in AutoLoadArgs, m \in FileMimes :
        /\ call' = [filename |-> f, filetype |-> ft, auto_load |-> a]
        /\ mimetype' = m
        /\ self0' = self
        /\ idx' = 1
        /\ failed' = TRUE
        /\ UNCHANGED <<attempted, results>>
        /\ IF ft.kind = "badname"
           THEN /\ pc' = "raised"
                /\ error' = [kind |-> "ValueError", names |-> {}]
                /\ self' = self
           ELSE /\ self' = [self EXCEPT !.filename = f]
                /\ IF ~Exists(f)
                   THEN /\ pc' = "raised"
                        /\ error' = [kind |-> "IOError", names |-> {}]
                   ELSE /\ pc' = IF AutoLoad(call') THEN "loop" ELSE "direct"
                        /\ error' = NoError
    /\ UNCHANGED <<tdiVars, maskVars, copyVars, editVars, laterVars>>

\* The mime-type short circuit of the loop.
MimeSkips(cls) == mimetype # "nomagic" /\ mimetype \notin MimeTypes(cls)

AfterOutcomeNoBreak(o) ==
    CASE o = "ok" -> "loop"
      [] o \in {"StonerLoadError", "UnicodeDecodeError"} -> "loop"
      [] OTHER -> "raised"

AfterOutcomeCatchAll(o) ==
    CASE o = "ok" -> "finish"
      [] OTHER -> "loop"

\* Where one attempt of the loop leaves load(): break, continue, or the exception
\* leaves the loop.
AfterOutcome(o) ==
    CASE o = "ok" -> "finish"
      [] o \in {"StonerLoadError", "UnicodeDecodeError"} -> "loop"
      [] OTHER -> "raised"

\* The exception an uncaught outcome leaves load() with.
RaisedBy(o) == IF o = "None" THEN "SyntaxError" ELSE o

\* test["Loaded as"] = cls.__name__ ; copy_into(test, self)
CopyInto(s, cls) ==
    [s EXCEPT !.data = DataOf(cls),
              !.metadata = ("Loaded as" :> cls) @@ MetadataOf(cls),
              !.column_headers = HeadersOf(cls)]

\* One pass of the loop over the registry.
LoadAttempt ==
    /\ pc = "loop"
    /\ idx <= Len(Registry)
    /\ LET cls == Registry[idx] IN
        IF MimeSkips(cls)
        THEN /\ idx' = idx + 1
             /\ UNCHANGED <<pc, self, failed, attempted, results, error>>
        ELSE \E o \in Outcomes :
             /\ attempted' = Append(attempted, cls)
             /\ results' = Append(results, o)
             /\ pc' = AfterOutcome(o)
             /\ idx' = IF pc' = "loop" THEN idx + 1 ELSE idx
             /\ failed' = IF o = "ok" THEN FALSE ELSE failed
             /\ self' = IF o = "ok" THEN CopyInto(self, cls) ELSE self
             /\ error' = IF pc' = "raised"
                         THEN [kind |-> RaisedBy(o), names |-> {}]
                         ELSE error
    /\ UNCHANGED <<self0, call, mimetype, tdiVars, maskVars, copyVars, editVars, laterVars>>

ExhaustedErrorSyntax == [kind |-> "SyntaxError", names |-> {}]

\* The exception of the loop's else clause.
ExhaustedError ==
    [kind |-> "StonerUnrecognisedFormat", names |-> Range(Registry)]

\* The loop's else clause: the registry is exhausted.
LoadExhausted ==
    /\ pc = "loop"
    /\ idx > Len(Registry)
    /\ pc' = "raised"
    /\ error' = ExhaustedError
    /\ UNCHANGED <<self, self0, call, mimetype, idx, failed, attempted, results>>
    /\ UNCHANGED <<tdiVars, maskVars, copyVars, editVars, laterVars>>

\* self["Loaded as"] = ... ; self.data = test.data ; self.metadata.update(...)
DirectInto(s, cls, kind) ==
    [s EXCEPT !.data = DataOf(cls),
              !.metadata = MetadataOf(cls) @@ ("Loaded as" :> cls) @@ s.metadata,
              !.column_headers = IF kind = "none" THEN s.column_headers
                                 ELSE HeadersOf(cls)]

\* The branch without auto_load: one handler, no try.
LoadDirect ==
    /\ pc = "direct"
    /\ LET ft == call.filetype
           cls == IF ft.kind = "none" THEN DataFileCls ELSE ft.h
       IN IF ft.kind = "foreign"
          THEN /\ pc' = "finish"
               /\ UNCHANGED <<self, failed, attempted, results, error>>
          ELSE \E o \in Outcomes :
               /\ attempted' = Append(attempted, cls)
               /\ results' = Append(results, o)
               /\ CASE o = "ok" /\ ft.kind # "instance" ->
                        /\ pc' = "finish"
                        /\ failed' = FALSE
                        /\ self' = DirectInto(self, cls, ft.kind)
                        /\ error' = error
                    [] o = "ok" /\ ft.kind = "instance" ->
                        \* filetype.__name__ of an instance
                        /\ pc' = "raised"
                        /\ error' = [kind |-> "AttributeError", names |-> {}]
                        /\ UNCHANGED <<self, failed>>
                    [] o = "None" /\ ft.kind # "instance" ->
                        \* "Loaded as" is set, then test.data of None
                        /\ pc' = "raised"
                        /\ error' = [kind |-> "AttributeError", names |-> {}]
                        /\ self' = [self EXCEPT !.metadata =
                                        ("Loaded as" :> cls) @@ self.metadata]
                        /\ failed' = failed
                    [] o = "None" /\ ft.kind = "instance" ->
                        /\ pc' = "raised"
                        /\ error' = [kind |-> "AttributeError", names |-> {}]
                        /\ UNCHANGED <<self, failed>>
                    [] OTHER ->
                        /\ pc' = "raised"
                        /\ error' = [kind |-> o, names |-> {}]
                        /\ UNCHANGED <<self, failed>>
    /\ UNCHANGED <<self0, call, mimetype, idx, tdiVars, maskVars, copyVars, editVars, laterVars>>

\* if failed: raise SyntaxError ... return self
LoadFinish ==
    /\ pc = "finish"
    /\ IF failed
       THEN /\ pc' = "raised"
            /\ error' = [kind |-> "SyntaxError", names |-> {}]
       ELSE /\ pc' = "returned"
            /\ error' = error
    /\ UNCHANGED <<self, self0, call, mimetype, idx, failed, attempted, results>>
    /\ UNCHANGED <<tdiVars, maskVars, copyVars, editVars, laterVars>>

(***************************************************************************)
(* The TDI text format.  A file is a sequence of lines, a line the sequence *)
(* of its tab-separated fields, a field one of: the empty string, a format  *)
(* marker, a column header, the text of a number, the exported text of a    *)
(* metadata item ("key{type}=value"), or some other text.                   *)
(***************************************************************************)
EmptyField == [k |-> "empty", a |-> 0, b |-> 0]

\* "TDI Format 1.5" (fmt 15) and "TDI Format=Text 1.0" (fmt 10)
Marker(fmt) == [k |-> "marker", a |-> fmt, b |-> 0]

Hdr(h) == [k |-> "text", a |-> h, b |-> 0]

JunkField == [k |-> "text", a |-> 0, b |-> 0]

\* str() of a data value
Num(v) == [k |-> "num", a |-> v, b |-> 0]

MdField(key, val) == [k |-> "md", a |-> key, b |-> val]

\* The metadata keys "Loaded as", "Stoner.class" and "TDI Format"; they sort
\* before the keys of the user, 1..MaxKeys.
KeyLoadedAs == -3

KeyStonerClass == -2

KeyTDIFormat == -1

UserKeys == 1..MaxKeys

AllKeys == UserKeys \cup {KeyLoadedAs, KeyStonerClass, KeyTDIFormat}

\* What genfromtxt makes of a field that is empty (masked) or no number (nan).
Masked == -1

NaN == -2

(***************************************************************************)
(* Metadata: the (key, value) pairs in insertion order, keys distinct.     *)
(***************************************************************************)
MdKeys(md) == {md[i][1] : i \in 1..Len(md)}

MdGet(md, key) == md[CHOOSE i \in 1..Len(md) : md[i][1] = key][2]

\* metadata[key] = val
MdSet(md, key, val) ==
    IF key \in MdKeys(md)
    THEN [i \in 1..Len(md) |-> IF md[i][1] = key THEN <<key, val>> ELSE md[i]]
    ELSE Append(md, <<key, val>>)

RECURSIVE SortSet(_)
SortSet(S) ==
    IF S = {} THEN <<>>
    ELSE LET least == CHOOSE x \in S : \A y \in S : x <= y
         IN <<least>> \o SortSet(S \ {least})

InsertionOrder(md) == [i \in 1..Len(md) |-> md[i][1]]

\* sorted(self.metadata)
SortedKeys(md) == SortSet(MdKeys(md))

\* self.metadata.export(k)
Export(md, key) == MdField(key, MdGet(md, key))

(***************************************************************************)
(* save() in the TDI format.                                               *)
(***************************************************************************)
HeaderLine(d) ==
    <<Marker(15)>> \o [j \in 1..Min(Len(d.column_headers), d.ncols) |->
                           Hdr(d.column_headers[j])]

\* mdremains = mdkeys[len(self):]
MdRemains(d) ==
    LET keys == SortedKeys(d.metadata)
        r == Len(d.data)
    IN IF Len(keys) > r THEN SubSeq(keys, r + 1, Len(keys)) ELSE <<>>

MdTextUnsorted(d) ==
    LET keys == InsertionOrder(d.metadata)
        r == Len(d.data)
    IN [i \in 1..r |-> IF i <= Len(keys) THEN Export(d.metadata, keys[i])
                       ELSE EmptyField]

\* mdtext: the exported lines of the first len(self) keys, padded with "".
MdText(d) ==
    LET keys == SortedKeys(d.metadata)
        r == Len(d.data)
    IN [i \in 1..r |-> IF i <= Len(keys) THEN Export(d.metadata, keys[i])
                       ELSE EmptyField]

\* The lines save() writes.
SavedLines(d) ==
    LET mdtext == MdText(d)
        rem == MdRemains(d)
    IN <<HeaderLine(d)>>
       \o [i \in 1..Len(d.data) |->
              <<mdtext[i]>> \o [j \in 1..Len(d.data[i]) |-> Num(d.data[i][j])]]
       \o [i \in 1..Len(rem) |-> <<Export(d.metadata, rem[i])>>]

(***************************************************************************)
(* numpy.genfromtxt as _load calls it: delimiter tab, skip_header 1,        *)
(* usemask, usecols range(1, cols).                                        *)
(***************************************************************************)
\* The value of one field: a number, masked where the field is empty, nan where
\* it is no number.
FieldValue(f) ==
    IF f.k = "num" THEN f.a ELSE IF f.k = "empty" THEN Masked ELSE NaN

\* usecols, as 1-based field positions; an empty usecols selects every field of
\* a line that has as many fields as the first line read.
GenFromTxt(lines, skip_footer, cols, invalid_raise) ==
    LET body == Tail(lines)
        nonEmpty == {i \in 1..Len(body) : Len(body[i]) > 0}
        usecols == 2..cols
        nbcols == IF nonEmpty = {} THEN 0
                  ELSE Len(body[CHOOSE i \in nonEmpty : \A j \in nonEmpty : i <= j])
        Valid(i) == IF usecols # {} THEN Len(body[i]) >= cols
                    ELSE Len(body[i]) = nbcols
        good == {i \in nonEmpty : Valid(i)}
        bad == nonEmpty \ good
        \* the invalid lines that lie in the footer are not errors
        nbrows == Cardinality(good) + Cardinality(bad) - skip_footer
        badKept == IF skip_footer > 0 THEN {i \in bad : i <= nbrows} ELSE bad
        footer == IF Cardinality(bad) > 0
                  THEN skip_footer - Cardinality(bad \ badKept)
                  ELSE skip_footer
        goodSeq == SortSet(good)
        kept == IF footer > 0
                THEN SubSeq(goodSeq, 1, Len(goodSeq) - footer)
                ELSE goodSeq
        Row(i) == IF usecols # {}
                  THEN [j \in 1..(cols - 1) |-> FieldValue(body[i][j + 1])]
                  ELSE [j \in 1..nbcols |-> FieldValue(body[i][j])]
    IN IF badKept # {} /\ invalid_raise
       THEN [err |-> "ValueError", rows |-> <<>>]
       ELSE [err |-> "none", rows |-> [n \in 1..Len(kept) |-> Row(kept[n])]]

(***************************************************************************)
(* _load(): the TDI parse routine.                                         *)
(***************************************************************************)
\* self.metadata.import_key(row[0])
ImportKey(md, f) == MdSet(md, f.a, f.b)

ScanStart ==
    [data_array |-> 0, metaDataArray |-> 0, cols |-> 0, still_data |-> "unbound",
     md |-> <<<<KeyStonerClass, DataFileCls>>>>, err |-> "none"]

\* The loop over the rows after the first: counts the rows with data and the rows
\* with metadata, imports the metadata, stops at the first row without metadata.
RECURSIVE ScanRows(_, _, _)
ScanRows(body, i, st) ==
    IF i > Len(body) THEN st
    ELSE LET row == body[i]
             hasData == Len(row) > 1 /\ row[2].k # "empty"
             st1 == [st EXCEPT !.data_array = IF hasData THEN @ + 1 ELSE @,
                               !.still_data = IF hasData THEN "true" ELSE "false"]
         IN IF Len(row) = 0 THEN [st1 EXCEPT !.err = "IndexError"]
            ELSE IF row[1].k = "empty" THEN st1
            ELSE IF row[1].k # "md" THEN [st1 EXCEPT !.err = "ParseError"]
            ELSE ScanRows(body, i + 1,
                          [st1 EXCEPT !.cols = Max(@, Len(row)),
                                      !.metaDataArray = @ + 1,
                                      !.md = ImportKey(@, row[1])])

\* cols as the scan leaves it: the widest row that holds metadata.
ColsOf(lines, st) == st.cols

NoDataFile == [column_headers |-> <<>>, data |-> <<>>, ncols |-> 0, metadata |-> <<>>]

\* The result of _load on a file: the exception, or the instance filled.
ParseTDI(lines) ==
    IF lines = <<>> \/ Len(lines[1]) = 0 \/ lines[1][1].k # "marker"
    THEN [err |-> "StonerLoadError", inst |-> NoDataFile]
    ELSE
    LET fmt == lines[1][1].a
        col_headers_tmp == [j \in 1..(Len(lines[1]) - 1) |-> lines[1][j + 1].a]
        st == ScanRows(Tail(lines), 1, ScanStart)
        cols == ColsOf(lines, st)
        gen == IF st.still_data = "true"
               THEN GenFromTxt(lines, 0, cols, FALSE)
               ELSE IF st.data_array > 0
               THEN GenFromTxt(lines, st.metaDataArray - st.data_array, cols, TRUE)
               ELSE [err |-> "none", rows |-> <<<<>>>>]
        ncols == IF gen.rows = <<>> THEN 0 ELSE Len(gen.rows[1])
    IN IF st.err # "none" THEN [err |-> st.err, inst |-> NoDataFile]
       ELSE IF st.still_data = "unbound"
       THEN [err |-> "UnboundLocalError", inst |-> NoDataFile]
       ELSE IF gen.err # "none" THEN [err |-> gen.err, inst |-> NoDataFile]
       ELSE [err |-> "none",
             inst |-> [column_headers |-> IF ncols > 0 THEN col_headers_tmp ELSE <<>>,
                       data |-> gen.rows,
                       ncols |-> ncols,
                       metadata |-> MdSet(st.md, KeyTDIFormat, fmt)]]

(***************************************************************************)
(* The DataFiles that are saved, and the files written by hand.            *)
(***************************************************************************)
MetadataOver(S, order, variant) ==
    LET asc == SortSet(S)
        keys == IF order = "asc" THEN asc
                ELSE [i \in 1..Len(asc) |-> asc[Len(asc) + 1 - i]]
        Val(key) == IF key = KeyLoadedAs THEN variant
                    ELSE IF key = KeyStonerClass THEN DataFileCls
                    ELSE IF key = KeyTDIFormat THEN (IF variant = 1 THEN 15 ELSE 10)
                    ELSE 50 + key
    IN [i \in 1..Len(keys) |-> <<keys[i], Val(keys[i])>>]

MakeDataFile(r, c, S, order, variant) ==
    [column_headers |-> [j \in 1..c |-> j],
     data |-> [i \in 1..r |-> [j \in 1..c |-> 10 * i + j]],
     ncols |-> c,
     metadata |-> MetadataOver(S, order, variant)]

DataFiles ==
    {MakeDataFile(r, c, S, order, variant) :
        r \in 0..MaxRows, c \in 1..MaxCols, S \in SUBSET AllKeys,
        order \in {"asc", "desc"}, variant \in 1..2}

LineShapes == {"md", "mddata", "data", "blank"}

HandLine(shape, i) ==
    CASE shape = "md" -> <<MdField(i, 50 + i)>>
      [] shape = "mddata" -> <<MdField(i, 50 + i), Num(10 * i + 1), Num(10 * i + 2)>>
      [] shape = "data" -> <<EmptyField, Num(10 * i + 1), Num(10 * i + 2)>>
      [] OTHER -> <<>>

\* Header "TDI Format 1.5\tA\tB", two metadata-only lines, the line "\t1.0\t2.0".
ScenarioFile ==
    <<<<Marker(15), Hdr(1), Hdr(2)>>, <<MdField(1, 51)>>, <<MdField(2, 52)>>,
      <<EmptyField, Num(1), Num(2)>>>>

HandFiles ==
    {<<>>, <<<<>>>>, <<<<JunkField>>>>, <<<<JunkField, Hdr(1)>>, HandLine("mddata", 1)>>,
     ScenarioFile}
    \cup {<<<<Marker(fmt), Hdr(1), Hdr(2)>>>>
             \o [i \in 1..Len(shapes) |-> HandLine(shapes[i], i)] :
            fmt \in {10, 15},
            shapes \in UNION {[1..m -> LineShapes] : m \in 0..MaxLines}}

TDIInit ==
    /\ \/ /\ source = "save"
          /\ tpc = "made"
          /\ orig \in DataFiles
          /\ file = <<>>
       \/ /\ source = "hand"
          /\ tpc = "written"
          /\ orig = NoDataFile
          /\ file \in HandFiles
    /\ test = NoDataFile
    /\ loaded = NoDataFile
    /\ terr = "none"

\* save(): the file holds the lines written.
TDISave ==
    /\ tpc = "made"
    /\ file' = SavedLines(orig)
    /\ tpc' = "saved"
    /\ UNCHANGED <<source, orig, test, loaded, terr, loadVars, maskVars, copyVars, editVars, laterVars>>

\* test = cls() ; test._load(filename)
TDIParse ==
    /\ tpc \in {"saved", "written"}
    /\ LET res == ParseTDI(file) IN
        /\ terr' = res.err
        /\ test' = res.inst
        /\ tpc' = IF res.err = "none" THEN "parsed" ELSE "failed"
    /\ UNCHANGED <<source, orig, file, loaded, loadVars, maskVars, copyVars, editVars, laterVars>>

\* test["Loaded as"] = cls.__name__ ; copy_into(test, self)
TDIAdopt ==
    /\ tpc = "parsed"
    /\ loaded' = [test EXCEPT !.metadata = MdSet(@, KeyLoadedAs, DataFileCls)]
    /\ tpc' = "loaded"
    /\ UNCHANGED <<source, orig, file, test, terr, loadVars, maskVars, copyVars, editVars, laterVars>>

(***************************************************************************)
(* Claims about the load() dispatch, checked under Spec.                   *)
(***************************************************************************)
Ascending(seq) ==
    \A i, j \in 1..Len(seq) : i < j => Priority(seq[i]) < Priority(seq[j])

\* C1: with auto-loading the handlers' parse routines are called one at a time in
\* ascending priority order (none is passed over when no mime type rules it out);
\* the first success ends the attempts, its data, metadata and column headers are
\* on the calling instance with "Loaded as" naming it, and no handler is attempted
\* after a success.
C1_AutoLoadFirstSuccessWins ==
    AutoLoad(call) =>
        /\ Ascending(attempted)
        /\ Len(results) = Len(attempted)
        /\ mimetype = "nomagic" => attempted = SubSeq(Registry, 1, Len(attempted))
        /\ \A i \in 1..Len(results) : i < Len(results) => results[i] # "ok"
        /\ pc \in {"finish", "returned"} =>
            /\ Len(results) > 0
            /\ results[Len(results)] = "ok"
            /\ LET won == attempted[Len(attempted)] IN
                /\ self.data = DataOf(won)
                /\ self.metadata = ("Loaded as" :> won) @@ MetadataOf(won)
                /\ self.column_headers = HeadersOf(won)
                /\ self.metadata["Loaded as"] = won

C1_Witness ==
    /\ pc = "returned"
    /\ AutoLoad(call)
    /\ Len(attempted) = 2
    /\ Len(attempted) < Len(Registry)
    /\ results = <<"StonerLoadError", "ok">>

C3_OnlyLoadErrorTriesNext ==
    AutoLoad(call) =>
        \A i \in 1..Len(results) :
            results[i] \in {"UnicodeDecodeError", "OtherError"} =>
                /\ i = Len(results)
                /\ pc = "raised"
                /\ error.kind = results[i]

\* C3 amended: LoadError and UnicodeDecodeError both become "try the next
\* handler" and never leave load(); an exception of any other kind raised by a
\* parse routine leaves load() and no handler is attempted after it.
C3_LoadAndUnicodeErrorsTryNext ==
    AutoLoad(call) =>
        /\ error.kind \notin {"StonerLoadError", "UnicodeDecodeError"}
        /\ \A i \in 1..Len(results) :
            /\ results[i] = "OtherError" =>
                /\ i = Len(results)
                /\ pc = "raised"
                /\ error.kind = "OtherError"
            /\ ( /\ results[i] \in {"StonerLoadError", "UnicodeDecodeError"}
                 /\ i = Len(results) )
               => \/ pc = "loop"
                  \/ pc = "raised" /\ error.kind = "StonerUnrecognisedFormat"

C3_Witness ==
    /\ pc = "raised"
    /\ AutoLoad(call)
    /\ results = <<"UnicodeDecodeError", "OtherError">>
    /\ error.kind = "OtherError"

\* C4: a load() that fails because the path does not exist or because no handler
\* recognises the file leaves data, metadata, column headers and filename of the
\* calling instance as they were.
C4_FailedLoadLeavesSelf ==
    (pc = "raised" /\ error.kind \in {"IOError", "StonerUnrecognisedFormat"})
        => self = self0

GivenFiletype == call.filetype.kind \in {"class", "instance"}

TDIDone == tpc \in {"parsed", "failed", "loaded"}

\* The metadata of d without the entries load() and _load() stamp on an instance.
UserMetadata(d) ==
    {<<key, MdGet(d.metadata, key)>> : key \in MdKeys(d.metadata) \cap UserKeys}

\* C6: _load signals failure only with StonerLoadError: whatever the lines of the
\* file, its outcome is a loaded instance or a StonerLoadError, never an error of
\* another kind.
C6_ParseFailsOnlyWithLoadError ==
    TDIDone => terr \in {"none", "StonerLoadError"}

\* The lines after the header are metadata lines followed by data lines that go on
\* after the metadata is exhausted.
DataAfterMetadata ==
    /\ Len(file) > 1
    /\ \A i \in 2..Len(file) :
        /\ Len(file[i]) > 0
        /\ (file[i][1].k = "empty") => Len(file[i]) > 1
        /\ (file[i][1].k = "empty" /\ i < Len(file)) => file[i + 1][1].k = "empty"
    /\ file[Len(file)][1].k = "empty"

\* C7: the file "TDI Format 1.5\tA\tB", two metadata-only lines, "\t1.0\t2.0" loads
\* with the 2 metadata entries of the file and a (1,2) data matrix; in general,
\* when data rows go on after the metadata lines, the loaded matrix has one column
\* per data field of those rows.
C7_DataPastMetadataLoads ==
    /\ (file = ScenarioFile /\ TDIDone) =>
        /\ terr = "none"
        /\ UserMetadata(test) = {<<1, 51>>, <<2, 52>>}
        /\ test.data = <<<<1, 2>>>>
    /\ (source = "hand" /\ TDIDone /\ terr = "none" /\ DataAfterMetadata) =>
        /\ test.ncols = Len(file[Len(file)]) - 1
        /\ \A i \in 1..Len(test.data) : Len(test.data[i]) = test.ncols

\* C8: saving a DataFile in the TDI format and loading the saved file back yields
\* the column headers, the data values and the metadata keys and values of the
\* DataFile saved (the entries the load stamps on the instance left aside).
C8_SaveLoadRoundTrip ==
    (source = "save" /\ tpc \in {"failed", "loaded"}) =>
        /\ tpc = "loaded"
        /\ loaded.column_headers = orig.column_headers
        /\ loaded.data = orig.data
        /\ UserMetadata(loaded) = UserMetadata(orig)

\* The metadata key a line exports, 0 where its first field exports none.
KeyOfLine(line) == IF Len(line) > 0 /\ line[1].k = "md" THEN line[1].a ELSE 0

\* C9: save() writes the header line ("TDI Format 1.5" and the column headers) and
\* then line i holds the exported i-th metadata key in sorted key order (blank once
\* the metadata is exhausted) followed by data row i; the keys beyond the data rows
\* follow one per line; every key is exported exactly once and the lines after the
\* header number max(data rows, metadata keys).
C9_SaveLayout ==
    (source = "save" /\ tpc = "saved") =>
        LET r == Len(orig.data)
            keys == MdKeys(orig.metadata)
            m == Cardinality(keys)
            body == Tail(file)
        IN /\ file[1][1] = Marker(15)
           /\ Tail(file[1]) = [j \in 1..orig.ncols |-> Hdr(orig.column_headers[j])]
           /\ Len(body) = Max(r, m)
           /\ \A i \in 1..Len(body) :
               /\ i <= m => /\ body[i][1].k = "md"
                            /\ body[i][1].a \in keys
                            /\ body[i][1].b = MdGet(orig.metadata, body[i][1].a)
               /\ i > m => body[i][1] = EmptyField
               /\ i <= r => Tail(body[i]) =
                               [j \in 1..orig.ncols |-> Num(orig.data[i][j])]
               /\ i > r => Len(body[i]) = 1
           /\ \A i, j \in 1..m : i < j => KeyOfLine(body[i]) < KeyOfLine(body[j])
           /\ \A key \in keys :
               Cardinality({i \in 1..Len(body) : KeyOfLine(body[i]) = key}) = 1

C9_Witness ==
    /\ source = "save"
    /\ tpc = "saved"
    /\ Len(orig.data) = 2
    /\ Cardinality(MdKeys(orig.metadata)) > 2
    /\ InsertionOrder(orig.metadata) # SortedKeys(orig.metadata)
    /\ Len(file) = 1 + Cardinality(MdKeys(orig.metadata))
    /\ Len(file[Len(file)]) = 1

(***************************************************************************)
(* The mask of the data and the stack of pushed masks.  A mask is the set   *)
(* of the masked cells; False and an array of False are both the empty set. *)
(***************************************************************************)
Cells == 1..MaxCells

MaskValues == SUBSET Cells

NoMask == {}

\* The arguments of _push_mask: None, or a mask.
MaskArgs ==
    {[none |-> TRUE, mask |-> NoMask]} \cup {[none |-> FALSE, mask |-> m] : m \in MaskValues}

\* self._masks = [False] ; self.mask = False
MaskInit ==
    /\ mask = NoMask
    /\ masks = <<NoMask>>
    /\ premask = NoMask
    /\ phase = "new"

\* self.mask = m
MaskSet ==
    /\ phase # "off"
    /\ \E m \in MaskValues : mask' = m
    /\ phase' = "set"
    /\ UNCHANGED <<masks, premask, loadVars, tdiVars, copyVars, editVars, laterVars>>

\* The mask on the data after _push_mask(m).
Installed(arg) == IF arg.none THEN NoMask ELSE arg.mask

\* _push_mask(m)
PushMask ==
    /\ phase # "off"
    /\ Len(masks) <= MaxStack
    /\ \E arg \in MaskArgs :
        /\ masks' = Append(masks, mask)
        /\ mask' = Installed(arg)
    /\ premask' = mask
    /\ phase' = "pushed"
    /\ UNCHANGED <<loadVars, tdiVars, copyVars, editVars, laterVars>>

PopBottom(stack) == stack[1]

\* self._masks.pop(): the mask pushed last.
PopTop(stack) == stack[Len(stack)]

AfterPopNoSentinel(stack) == SubSeq(stack, 1, Len(stack) - 1)

\* The stack after the pop, never left empty.
AfterPop(stack) ==
    LET rest == SubSeq(stack, 1, Len(stack) - 1)
    IN IF rest = <<>> THEN <<NoMask>> ELSE rest

\* _pop_mask()
PopMask ==
    /\ phase # "off"
    /\ mask' = PopTop(masks)
    /\ masks' = AfterPop(masks)
    /\ phase' = IF phase = "pushed" THEN "restored"
                 ELSE IF Len(masks) = 1 THEN "emptied" ELSE "popped"
    /\ UNCHANGED <<premask, loadVars, tdiVars, copyVars, editVars, laterVars>>

C11_MaskStackNeverEmpty ==
    phase # "off" => Len(masks) >= 1

\* A pop that took the sentinel itself off the stack.
C11_Witness ==
    /\ phase = "emptied"
    /\ masks = <<NoMask>>

(***************************************************************************)
(* Copies of a DataFile.  The attributes of an instance refer to objects on *)
(* a heap, so that two instances can share an object or own one each.       *)
(***************************************************************************)
\* The attributes in __dict__ that hold the data (with its mask), the saved
\* masks, the metadata and the column roles (with the headers).
AttrSeq == <<"_data", "_masks", "metadata", "setas">>

Attrs == Range(AttrSeq)

SmallValues == 0..MaxVal

\* The masks used here: nothing masked, everything masked.
WholeMasks == {NoMask, Cells}

\* What an instance holds: the content of the object each attribute refers to.
View(h, ref) == [a \in Attrs |-> h[ref[a]]]

NoCopy(h, ref) == [heap |-> h, ref |-> ref]

\* copy.copy(v): a new object with the content of v.
CopyCopy(h, ref) == [heap |-> Append(h, h[ref]), ref |-> Len(h) + 1]

\* copy.deepcopy(v, memo): a new object with the content of v, copied in depth.
DeepCopy(h, ref) == [heap |-> Append(h, h[ref]), ref |-> Len(h) + 1]

\* arg.metadata.copy(), DataArray(arg.data, ...), arg.setas.clone
FreshCopy(h, ref) == [heap |-> Append(h, h[ref]), ref |-> Len(h) + 1]

\* __deepcopy__: every attribute is set to its deep copy, or to its copy.copy
\* where the deep copy raises.
RECURSIVE DeepCopyAttrs(_, _, _, _, _)
DeepCopyAttrs(h, src, dst, raises, i) ==
    IF i > Len(AttrSeq) THEN [heap |-> h, ref |-> dst]
    ELSE LET a == AttrSeq[i]
             c == IF a \in raises THEN CopyCopy(h, src[a]) ELSE DeepCopy(h, src[a])
         IN DeepCopyAttrs(c.heap, src, [dst EXCEPT ![a] = c.ref], raises, i + 1)

\* _init_single, the loop over arg.__dict__: every attribute is set to its
\* copy.copy.
RECURSIVE ShallowCopyAttrs(_, _, _, _)
ShallowCopyAttrs(h, src, dst, i) ==
    IF i > Len(AttrSeq) THEN [heap |-> h, ref |-> dst]
    ELSE LET a == AttrSeq[i]
             c == CopyCopy(h, src[a])
         IN ShallowCopyAttrs(c.heap, src, [dst EXCEPT ![a] = c.ref], i + 1)

\* _init_single with a DataFile: the loop, then metadata, data and setas are
\* assigned afresh.
InitFromDataFile(h, src, dst) ==
    LET looped == ShallowCopyAttrs(h, src, dst, 1)
        md == FreshCopy(looped.heap, src["metadata"])
        da == FreshCopy(md.heap, src["_data"])
        se == FreshCopy(da.heap, src["setas"])
    IN [heap |-> se.heap,
        ref |-> [looped.ref EXCEPT !["metadata"] = md.ref, !["_data"] = da.ref,
                                   !["setas"] = se.ref]]

NoRefs == [a \in Attrs |-> 0]

CopyInit ==
    /\ \E cell \in SmallValues, m \in WholeMasks, saved \in {<<NoMask>>, <<NoMask, Cells>>},
          md \in SmallValues, role \in {".", "x"} :
        heap = <<[cell |-> cell, mask |-> m], saved, md, [header |-> 0, role |-> role]>>
    /\ dref = [a \in Attrs |-> CHOOSE i \in 1..Len(AttrSeq) : AttrSeq[i] = a]
    /\ eref = NoRefs
    /\ snap = [kind |-> "none", d |-> View(heap, dref)]
    /\ cpc = "made"

\* e = copy.deepcopy(d)
CopyDeep ==
    /\ cpc = "made"
    /\ \E raises \in SUBSET Attrs :
        LET c == DeepCopyAttrs(heap, dref, NoRefs, raises, 1) IN
            /\ heap' = c.heap
            /\ eref' = c.ref
    /\ snap' = [kind |-> "deepcopy", d |-> View(heap, dref)]
    /\ cpc' = "copied"
    /\ UNCHANGED <<dref, loadVars, tdiVars, maskVars, editVars, laterVars>>

\* e = d.clone
CopyClone ==
    /\ cpc = "made"
    /\ LET c == DeepCopyAttrs(heap, dref, NoRefs, {}, 1) IN
        /\ heap' = c.heap
        /\ eref' = c.ref
    /\ snap' = [kind |-> "clone", d |-> View(heap, dref)]
    /\ cpc' = "copied"
    /\ UNCHANGED <<dref, loadVars, tdiVars, maskVars, editVars, laterVars>>

\* e = DataFile(d)
CopyConstruct ==
    /\ cpc = "made"
    /\ LET c == InitFromDataFile(heap, dref, NoRefs) IN
        /\ heap' = c.heap
        /\ eref' = c.ref
    /\ snap' = [kind |-> "construct", d |-> View(heap, dref)]
    /\ cpc' = "copied"
    /\ UNCHANGED <<dref, loadVars, tdiVars, maskVars, editVars, laterVars>>

EditedCopy ==
    /\ cpc \in {"copied", "edited"}
    /\ cpc' = "edited"
    /\ UNCHANGED <<dref, eref, snap, loadVars, tdiVars, maskVars, editVars, laterVars>>

\* e.data[...] = v ; e.mask = m
CopySetData ==
    /\ EditedCopy
    /\ \E v \in SmallValues, m \in WholeMasks :
        heap' = [heap EXCEPT ![eref["_data"]] = [cell |-> v, mask |-> m]]

\* e._push_mask(m)
CopyPushMask ==
    /\ EditedCopy
    /\ Len(heap[eref["_masks"]]) <= MaxStack
    /\ \E arg \in {x \in MaskArgs : x.mask \in WholeMasks} :
        heap' = [heap EXCEPT ![eref["_masks"]] = Append(@, heap[eref["_data"]].mask),
                             ![eref["_data"]].mask = Installed(arg)]

\* e._pop_mask()
CopyPopMask ==
    /\ EditedCopy
    /\ heap' = [heap EXCEPT ![eref["_data"]].mask = PopTop(heap[eref["_masks"]]),
                            ![eref["_masks"]] = AfterPop(@)]

\* e[key] = v
CopySetMetadata ==
    /\ EditedCopy
    /\ \E v \in SmallValues : heap' = [heap EXCEPT ![eref["metadata"]] = v]

\* e.column_headers = [...] ; e.setas = "..."
CopySetSetas ==
    /\ EditedCopy
    /\ \E v \in SmallValues, role \in {".", "x"} :
        heap' = [heap EXCEPT ![eref["setas"]] = [header |-> v, role |-> role]]

None == -1

\* The header "Column ix" that add_column gives by default.
DefaultHeader(ix) == 100 + ix

\* The text "Column {ix}" that add_column appends to a header list of the wrong
\* length.
LiteralHeader == 99

\* The header the setas object gives a column nobody named.
UnnamedHeader(ix) == 200 + ix

Roles == {".", "x", "y"}

ZeroRow(c) == [j \in 1..c |-> 0]

Zeros(r, c) == [i \in 1..r |-> ZeroRow(c)]

Unmasked(r, c) == [i \in 1..r |-> [j \in 1..c |-> FALSE]]

\* The entries of seq at the 0-based positions from..to-1.
Slice(seq, from, to) == SubSeq(seq, from + 1, to)

\* np.append(a, b, axis=1) for two matrices with the same number of rows.
AppendCols(a, b) == [i \in 1..Len(a) |-> a[i] \o b[i]]

\* a[:, from:to]
SliceCols(a, from, to) == [i \in 1..Len(a) |-> Slice(a[i], from, to)]

RECURSIVE Flatten(_)
Flatten(a) == IF a = <<>> THEN <<>> ELSE Head(a) \o Flatten(Tail(a))

\* The roles and headers of a DataArray built with setas=self.setas.clone: kept by
\* position, cut or padded to the width of the new data.
FitRoles(roles, c) == [j \in 1..c |-> IF j <= Len(roles) THEN roles[j] ELSE "."]

FitHeaders(headers, c) ==
    [j \in 1..c |-> IF j <= Len(headers) THEN headers[j] ELSE UnnamedHeader(j - 1)]

SetRoleNoClear(roles, ix, s) == [roles EXCEPT ![ix + 1] = s]

\* self.setas[ix] = s: the column takes the role; "x" is taken from the column
\* that held it.
SetRole(roles, ix, s) ==
    [j \in 1..Len(roles) |->
        IF j = ix + 1 THEN s
        ELSE IF s = "x" /\ roles[j] = "x" THEN "." ELSE roles[j]]

\* self.setas = [...]: the roles are given to the columns one after the other.
RECURSIVE AssignRoles(_, _, _)
AssignRoles(roles, new, ix) ==
    IF ix >= Len(new) \/ ix >= Len(roles) THEN roles
    ELSE AssignRoles(SetRole(roles, ix, new[ix + 1]), new, ix + 1)

\* self.find_col(index) for a number: the column of that index.
FindCol(d, index) == index

Failed(d, err) == [err |-> err, d |-> d]

Returned(d) == [err |-> "none", d |-> d]

\* The rows the loops of add_column give the headers and roles back to: the
\* columns before index keep their place, those from index on move right by cw.
MovedBack(fitted, old, index, cw, dc) ==
    [j \in 1..Len(fitted) |->
        IF j <= index /\ j <= Len(old) THEN old[j]
        ELSE IF j > index + cw /\ j - cw <= dc /\ j - cw <= Len(old) THEN old[j - cw]
        ELSE fitted[j]]

\* As MovedBack for the roles, through self.setas[ix] = old_setas[ix].
RECURSIVE MoveRoles(_, _, _, _, _, _)
MoveRoles(roles, old, index, cw, dc, ix) ==
    IF ix >= dc THEN roles
    ELSE MoveRoles(SetRole(roles, IF ix < index THEN ix ELSE ix + cw, old[ix + 1]),
                   old, index, cw, dc, ix + 1)

\* The last loop of add_column: the new columns take their headers and roles.
RECURSIVE NameNew(_, _, _, _, _)
NameNew(d, header, setas, index, ix) ==
    IF ix >= Len(header) \/ ix >= Len(setas) THEN d
    ELSE NameNew([d EXCEPT !.column_headers[index + ix + 1] = header[ix + 1],
                           !.setas = SetRole(@, index + ix, setas[ix + 1])],
                 header, setas, index, ix + 1)

\* The width of the block of zeros appended when the new data reaches past the
\* last column.
ExtraColumns(c, index, cw) == c - index + cw

\* add_column(column_data, header, index, replace=..., setas=...)
AddColumn(d, a) ==
    LET dr == d.r
        dc == d.c
        index == IF a.index = None THEN dc ELSE FindCol(d, a.index)
        replace == IF a.index = None \/ a.index = dc THEN FALSE ELSE a.replace
        cl == a.cl
        cw == a.cw
        setas == IF a.setas.given THEN a.setas.s ELSE [j \in 1..cw |-> "."]
        \* the rows of the existing data and of the new data made equal
        growsOld == cl > dr /\ dc * dr > 0
        padsNew == ~growsOld /\ cl < dr
        noWidth == ~growsOld /\ ~padsNew /\ dc = 0
        noRows == ~growsOld /\ ~padsNew /\ ~noWidth /\ dr = 0
        r1 == IF growsOld \/ noWidth THEN cl ELSE dr
        data1 == IF growsOld THEN d.data \o Zeros(cl - dr, dc)
                 ELSE IF noWidth THEN Zeros(cl, 0)
                 ELSE d.data
        rebuilt1 == growsOld \/ noWidth
        flat == Flatten(a.block) \o ZeroRow((dr - cl) * cw)
        np_data == IF padsNew THEN [i \in 1..Len(flat) |-> <<flat[i]>>] ELSE a.block
        npr == Len(np_data)
        npc == IF padsNew THEN 1 ELSE cw
        \* the new columns put in, when not replacing
        data2 == IF replace THEN data1
                 ELSE IF index = dc THEN AppendCols(data1, np_data)
                 ELSE AppendCols(SliceCols(data1, 0, index),
                                 AppendCols(Zeros(npr, npc), SliceCols(data1, index, dc)))
        c2 == IF replace THEN dc ELSE dc + npc
        \* the data widened where the new columns reach past the last one
        widens == index + cw > c2
        extra == ExtraColumns(c2, index, cw)
        data3 == IF widens THEN AppendCols(data2, Zeros(r1, extra)) ELSE data2
        c3 == IF widens THEN c2 + extra ELSE c2
        rebuilt == rebuilt1 \/ ~replace \/ widens
        data4 == [i \in 1..r1 |->
                     [j \in 1..c3 |->
                         IF j > index /\ j <= index + cw
                         THEN np_data[i][j - index]
                         ELSE data3[i][j]]]
        mask4 == IF rebuilt THEN Unmasked(r1, c3)
                 ELSE [i \in 1..r1 |->
                         [j \in 1..c3 |->
                             IF j > index /\ j <= index + cw THEN FALSE ELSE d.mask[i][j]]]
        headers3 == IF replace THEN FitHeaders(d.column_headers, c3)
                    ELSE MovedBack(FitHeaders(d.column_headers, c3), d.column_headers,
                                   index, cw, dc)
        roles3 == IF replace THEN FitRoles(d.setas, c3)
                  ELSE MoveRoles(FitRoles(d.setas, c3), d.setas, index, cw, dc, 0)
        given == IF a.header.given THEN a.header.h
                 ELSE [j \in 1..cw |-> DefaultHeader(index + j - 1)]
        header == IF Len(given) # cw
                  THEN given \o [j \in 1..cw |-> LiteralHeader]
                  ELSE given
        placed == [r |-> r1, c |-> c3, data |-> data4, mask |-> mask4,
                   column_headers |-> headers3, setas |-> roles3]
    IN IF Len(setas) # cw THEN Failed(d, "TypeError")
       ELSE IF noRows THEN Failed(d, "ValueError")
       ELSE IF ~replace /\ npr # r1 THEN Failed(d, "ValueError")
       ELSE IF npr # r1
       THEN Failed([r |-> r1, c |-> c3, data |-> data3,
                    mask |-> IF rebuilt THEN Unmasked(r1, c3) ELSE d.mask,
                    column_headers |-> headers3, setas |-> roles3], "ValueError")
       ELSE Returned(NameNew(placed, header, setas, index, 0))

\* seq[keep]: the entries of seq at the positions where keep is TRUE, in order.
RECURSIVE Pick(_, _)
Pick(seq, keep) ==
    IF seq = <<>> \/ keep = <<>> THEN <<>>
    ELSE (IF Head(keep) THEN <<Head(seq)>> ELSE <<>>) \o Pick(Tail(seq), Tail(keep))

Count(keep) == Cardinality({j \in 1..Len(keep) : keep[j]})

\* The roles after columns were taken out of the data and no role was assigned:
\* the roles travel with the columns that stay.
RolesTravel(roles, keep) == Pick(roles, keep)

KeepColsDataOnly(d, keep) ==
    [d EXCEPT !.c = Count(keep),
              !.data = [i \in 1..d.r |-> Pick(d.data[i], keep)]]

\* self.data = self.data[:, keep], with the mask of the cells kept.
KeepCols(d, keep) ==
    [d EXCEPT !.c = Count(keep),
              !.data = [i \in 1..d.r |-> Pick(d.data[i], keep)],
              !.mask = [i \in 1..d.r |-> Pick(d.mask[i], keep)]]

\* col = ~np.array(col)
KeptByBooleans(col) == [j \in 1..Len(col) |-> ~col[j]]

\* del_column(col, duplicates=False).  col.kind is "none" (None or False), "true",
\* "booleans" (col.list) or "index" (col.index).
DelColumn(d, col) ==
    LET columns == 1..d.c
        unmaskedCols == [j \in columns |-> \A i \in 1..d.r : ~d.mask[i][j]]
        roleSet == [j \in columns |-> d.setas[j] # "."]
    IN CASE col.kind = "none" ->
              IF d.r = 0 THEN Failed(d, "IndexError")
              ELSE LET k == KeepCols(d, unmaskedCols) IN
                   Returned([k EXCEPT !.column_headers = Pick(d.column_headers, unmaskedCols),
                                      !.setas = RolesTravel(d.setas, unmaskedCols)])
         [] col.kind = "true" ->
              LET k == KeepCols(d, roleSet) IN
              Returned([k EXCEPT !.setas = AssignRoles(FitRoles(d.setas, k.c),
                                                       Pick(d.setas, roleSet), 0),
                                 !.column_headers = Pick(d.column_headers, roleSet)])
         [] col.kind = "booleans" ->
              IF Len(col.list) # d.c THEN Failed(d, "IndexError")
              ELSE LET keep == KeptByBooleans(col.list)
                       k == KeepCols(d, keep) IN
                   Returned([k EXCEPT !.setas = AssignRoles(FitRoles(d.setas, k.c),
                                                            Pick(d.setas, keep), 0),
                                      !.column_headers = Pick(d.column_headers, keep)])
         [] OTHER ->
              IF col.index >= d.c THEN Failed(d, "IndexError")
              ELSE LET keep == [j \in columns |-> j # FindCol(d, col.index) + 1]
                       k == KeepCols(d, keep) IN
                   Returned([k EXCEPT !.column_headers = Pick(d.column_headers, keep),
                                      !.setas = RolesTravel(d.setas, keep)])

\* The rows of the 0-based indices in keep, with their masks.
KeepRows(d, keep) ==
    LET flags == [i \in 1..d.r |-> (i - 1) \in keep]
    IN [d EXCEPT !.r = Count(flags),
                 !.data = Pick(d.data, flags),
                 !.mask = Pick(d.mask, flags)]

RowIndices(d) == 0..(d.r - 1)

\* np.delete(self.data, rows, 0) with the mask: an index past the last row raises.
DeleteRows(d, rows) ==
    IF rows \subseteq RowIndices(d) THEN Returned(KeepRows(d, RowIndices(d) \ rows))
    ELSE Failed(d, "IndexError")

\* The rows the tests on a column select: val a float, a (lower, upper) pair, or a
\* callable (val.rows: the rows it is true of).  A masked cell equals nothing,
\* lies in no range, and fails the test of a callable.
RowsByValue(d, a) ==
    LET col == FindCol(d, a.index) + 1
        Test(i) == CASE a.val.kind = "float" ->
                           ~d.mask[i + 1][col] /\ d.data[i + 1][col] = a.val.v
                     [] a.val.kind = "range" ->
                           /\ ~d.mask[i + 1][col]
                           /\ Min(a.val.v, a.val.w) <= d.data[i + 1][col]
                           /\ d.data[i + 1][col] <= Max(a.val.v, a.val.w)
                     [] OTHER -> i \in a.val.rows /\ ~d.mask[i + 1][col]
    IN {i \in RowIndices(d) : Test(i) # a.invert}

\* del_rows(c) called with an undefined name where a single index is inverted.
InvertSingle(d, a) == Failed(d, "NameError")

\* del_rows(col, val, invert).  a.kind: "none", "slice" (a.rows: the indices of
\* the slice), "predicate" (a.rows: the rows col is true of), "list" (a.rows, not
\* empty), "booleans" (a.list, not empty), "index" (a.index), "value" (a.index,
\* a.val).  A slice or a predicate that selects no row is a list of no indices.
DelRows(d, a) ==
    CASE a.kind = "none" ->
           Returned(KeepRows(d, {i \in RowIndices(d) :
                                    \A j \in 1..d.c : ~d.mask[i + 1][j]}))
      [] a.kind = "booleans" ->
           IF Len(a.list) > d.r THEN Failed(d, "IndexError")
           ELSE Returned(KeepRows(d, {i \in RowIndices(d) :
                                         i < Len(a.list) /\ a.list[i + 1]}))
      [] a.kind \in {"slice", "predicate", "list"} ->
           IF a.invert THEN Returned(KeepRows(d, a.rows \cap RowIndices(d)))
           ELSE DeleteRows(d, a.rows)
      [] a.kind = "index" ->
           IF a.invert THEN InvertSingle(d, a) ELSE DeleteRows(d, {a.index})
      [] OTHER ->
           IF a.index >= d.c THEN Failed(d, "IndexError")
           ELSE DeleteRows(d, RowsByValue(d, a))

\* insert_rows(row, new_data): np.insert(self.data, row, new_data, 0).
InsertRows(d, row, new_data) ==
    IF row > d.r THEN Failed(d, "IndexError")
    ELSE IF \E i \in 1..Len(new_data) : Len(new_data[i]) # d.c THEN Failed(d, "ValueError")
    ELSE Returned([d EXCEPT !.r = d.r + Len(new_data),
                            !.data = Slice(d.data, 0, row) \o new_data
                                     \o Slice(d.data, row, d.r),
                            !.mask = Unmasked(d.r + Len(new_data), d.c)])

\* rename(old_col, new_col)
Rename(d, old_col, new_col) ==
    IF old_col >= d.c THEN Failed(d, "IndexError")
    ELSE Returned([d EXCEPT !.column_headers[FindCol(d, old_col) + 1] = new_col])

\* reorder_columns(cols, headers_too, setas_too)
ReorderColumns(d, cols, headers_too, setas_too) ==
    LET k == Len(cols)
        column_headers == IF headers_too THEN [n \in 1..k |-> d.column_headers[cols[n] + 1]]
                          ELSE d.column_headers
        setas == IF setas_too THEN [n \in 1..k |-> d.setas[cols[n] + 1]] ELSE d.setas
    IN IF k = 0 \/ \E n \in 1..k : cols[n] >= d.c THEN Failed(d, "IndexError")
       ELSE Returned([r |-> d.r, c |-> k,
                      data |-> [i \in 1..d.r |-> [n \in 1..k |-> d.data[i][cols[n] + 1]]],
                      mask |-> Unmasked(d.r, k),
                      setas |-> IF setas_too
                                THEN AssignRoles([n \in 1..k |-> "."], setas, 0)
                                ELSE FitRoles(setas, k),
                      column_headers |-> FitHeaders(column_headers, k)])

\* The loop of filter over the rows from row i on: each row's mask is assigned
\* not func(r), whatever it held.
RECURSIVE FilterRows(_, _, _)
FilterRows(m, func, i) ==
    IF i >= Len(m) THEN m
    ELSE FilterRows([m EXCEPT ![i + 1] = [j \in DOMAIN @ |-> i \notin func.rows]],
                    func, i + 1)

\* filter(func, cols=None, reset): func.rows are the rows func is true of.
Filter(d, func, reset) ==
    LET start == IF reset THEN Unmasked(d.r, d.c) ELSE d.mask
    IN Returned([d EXCEPT !.mask = FilterRows(start, func, 0)])

TDIOff ==
    /\ source = "off"
    /\ tpc = "off"
    /\ orig = NoDataFile
    /\ file = <<>>
    /\ test = NoDataFile
    /\ loaded = NoDataFile
    /\ terr = "none"

MaskOff ==
    /\ mask = {}
    /\ masks = <<>>
    /\ premask = {}
    /\ phase = "off"

CopyOff ==
    /\ heap = <<>>
    /\ dref = <<>>
    /\ eref = <<>>
    /\ snap = <<>>
    /\ cpc = "off"

EditOff ==
    /\ df = <<>>
    /\ pre = <<>>
    /\ op = [name |-> "off"]

ImagesOff ==
    /\ images = <<>>
    /\ before = <<>>
    /\ did = [name |-> "off"]

FnOff ==
    /\ args = <<>>
    /\ ret = <<>>

OpenOff == opening = [pc |-> "off"]

LaterOff == ImagesOff /\ FnOff /\ OpenOff

Init == LoadInit /\ TDIOff /\ MaskOff /\ CopyOff /\ EditOff /\ LaterOff

Next ==
    \/ LoadResolve
    \/ LoadAttempt
    \/ LoadExhausted
    \/ LoadDirect
    \/ LoadFinish

Spec == Init /\ [][Next]_vars

InitTDI == LoadOff /\ TDIInit /\ MaskOff /\ CopyOff /\ EditOff /\ LaterOff

NextTDI ==
    \/ TDISave
    \/ TDIParse
    \/ TDIAdopt

SpecTDI == InitTDI /\ [][NextTDI]_vars

InitMask == LoadOff /\ TDIOff /\ MaskInit /\ CopyOff /\ EditOff /\ LaterOff

NextMask ==
    \/ MaskSet
    \/ PushMask
    \/ PopMask

SpecMask == InitMask /\ [][NextMask]_vars

InitCopy == LoadOff /\ TDIOff /\ MaskOff /\ CopyInit /\ EditOff /\ LaterOff

NextCopy ==
    \/ CopyDeep
    \/ CopyClone
    \/ CopyConstruct
    \/ CopySetData
    \/ CopyPushMask
    \/ CopyPopMask
    \/ CopySetMetadata
    \/ CopySetSetas

SpecCopy == InitCopy /\ [][NextCopy]_vars

\* ---------------------------------------------------------------------------
\* The editing methods, each applied to any DataFile within the bounds.

\* Sequences over S of the lengths from..to.
SeqsOf(S, from, to) == UNION {[1..n -> S] : n \in from..to}

\* The masks a DataFile starts with: nothing masked, one row masked, or one cell
\* of the first row masked.
EditMasks(r, c) ==
    {Unmasked(r, c)}
    \cup {[i \in 1..r |-> [j \in 1..c |-> i = m]] : m \in 1..r}
    \cup {[i \in 1..r |-> [j \in 1..c |-> i = 1 /\ j = m]] : m \in 1..c}

\* What the cell of row i, column j holds at the start (1-based).
Cell(i, j) == 10 * i + j

\* What the cell of row i, column j of the data passed to a method holds.
NewCell(i, j) == 70 + 10 * i + j

HeaderOf(j) == j

\* The roles the columns hold: "x" is held by one column at most.
RolesOf(c) ==
    {roles \in [1..c -> Roles] : Cardinality({j \in 1..c : roles[j] = "x"}) <= 1}

EditDataFiles ==
    UNION {{[r |-> r, c |-> c,
             data |-> [i \in 1..r |-> [j \in 1..c |-> Cell(i, j)]],
             mask |-> m,
             column_headers |-> [j \in 1..c |-> HeaderOf(j)],
             setas |-> roles] : roles \in RolesOf(c), m \in EditMasks(r, c)} :
           r \in 0..MaxRows, c \in 1..MaxCols}

EditInit ==
    /\ df \in EditDataFiles
    /\ pre = df
    /\ op = [name |-> "new", err |-> "none"]

NotEdit == UNCHANGED <<loadVars, tdiVars, maskVars, copyVars, laterVars>>

\* The state after a call of a method on df that ended as res says.
Called(name, a, res) ==
    /\ df' = res.d
    /\ pre' = df
    /\ op' = [name |-> name, a |-> a, err |-> res.err]
    /\ NotEdit

Block(cl, cw) == [i \in 1..cl |-> [j \in 1..cw |-> NewCell(i, j)]]

NewHeader(j) == 50 + j

\* The header and setas arguments of add_column: left out, of the width of the
\* data, or a single one whatever the width of the data.
HeaderArgs(cw) ==
    {[given |-> FALSE, h |-> <<>>], [given |-> TRUE, h |-> <<NewHeader(1)>>]}

SetasArgs(cw) ==
    {[given |-> FALSE, s |-> <<>>],
     [given |-> TRUE, s |-> [j \in 1..cw |-> IF j = 1 THEN "x" ELSE "y"]],
     [given |-> TRUE, s |-> <<"y">>]}

EditAddColumn ==
    /\ op.name = "new"
    /\ \E cl \in 1..MaxRows, cw \in 1..MaxCols, index \in {None} \cup 0..df.c,
          replace \in BOOLEAN :
         \E header \in HeaderArgs(cw), setas \in SetasArgs(cw) :
            LET a == [block |-> Block(cl, cw), cl |-> cl, cw |-> cw, index |-> index,
                      replace |-> replace, header |-> header, setas |-> setas]
            IN Called("add_column", a, AddColumn(df, a))

DelColumnArgs(d) ==
    {[kind |-> "none"], [kind |-> "true"]}
    \cup {[kind |-> "booleans", list |-> l] : l \in SeqsOf(BOOLEAN, d.c - 1, d.c)}
    \cup {[kind |-> "index", index |-> i] : i \in 0..d.c}

EditDelColumn ==
    /\ op.name = "new"
    /\ \E col \in DelColumnArgs(df) : Called("del_column", col, DelColumn(df, col))

\* del_column(i) on the DataFile that add_column(data, index=i) returned.
EditDelAddedColumn ==
    /\ op.name = "add_column"
    /\ op.err = "none"
    /\ op.a.index # None
    /\ LET col == [kind |-> "index", index |-> op.a.index]
           res == DelColumn(df, col)
       IN /\ df' = res.d
          /\ pre' = pre
          /\ op' = [name |-> "del_column after add_column", a |-> op.a, err |-> res.err]
          /\ NotEdit

RowSets(d) == SUBSET RowIndices(d)

\* The values del_rows looks for in a column: one a cell holds, one no cell holds.
Floats == {Cell(1, 1), Cell(2, 1), 0}

ValArgs(d) ==
    {[kind |-> "float", v |-> v] : v \in Floats}
    \cup {[kind |-> "range", v |-> v, w |-> w] : v \in Floats, w \in {Cell(1, 1)}}
    \cup {[kind |-> "callable", rows |-> rows] : rows \in RowSets(d)}

DelRowsArgs(d) ==
    {[kind |-> "none", invert |-> FALSE]}
    \cup {[kind |-> "booleans", list |-> l, invert |-> inv] :
             l \in SeqsOf(BOOLEAN, Max(1, d.r - 1), d.r + 1), inv \in BOOLEAN}
    \cup {[kind |-> "slice", rows |-> from..(to - 1), invert |-> inv] :
             from \in 0..d.r, to \in 0..d.r, inv \in BOOLEAN}
    \cup {[kind |-> "predicate", rows |-> rows, invert |-> inv] :
             rows \in RowSets(d), inv \in BOOLEAN}
    \cup {[kind |-> "list", rows |-> rows, invert |-> inv] :
             rows \in (SUBSET (0..d.r)) \ {{}}, inv \in BOOLEAN}
    \cup {[kind |-> "index", index |-> i, invert |-> inv] : i \in 0..d.r, inv \in BOOLEAN}
    \cup {[kind |-> "value", index |-> j, val |-> val, invert |-> inv] :
             j \in 0..(d.c - 1), val \in ValArgs(d), inv \in BOOLEAN}

EditDelRows ==
    /\ op.name = "new"
    /\ \E a \in DelRowsArgs(df) : Called("del_rows", a, DelRows(df, a))

EditInsertRows ==
    /\ op.name = "new"
    /\ \E row \in 0..(df.r + 1), k \in 1..2, w \in {df.c, df.c + 1} :
         LET a == [row |-> row, new_data |-> Block(k, w)]
         IN Called("insert_rows", a, InsertRows(df, row, a.new_data))

EditRename ==
    /\ op.name = "new"
    /\ \E old_col \in 0..df.c :
         LET a == [old_col |-> old_col, new_col |-> NewHeader(1)]
         IN Called("rename", a, Rename(df, old_col, a.new_col))

EditReorderColumns ==
    /\ op.name = "new"
    /\ \E cols \in SeqsOf(0..(df.c - 1), 1, MaxCols), headers_too \in BOOLEAN,
          setas_too \in BOOLEAN :
         LET a == [cols |-> cols, headers_too |-> headers_too, setas_too |-> setas_too]
         IN Called("reorder_columns", a, ReorderColumns(df, cols, headers_too, setas_too))

\* self.setas[ix] = s
EditSetRole ==
    /\ op.name = "new"
    /\ \E ix \in 0..(df.c - 1), s \in Roles :
         LET a == [ix |-> ix, s |-> s]
         IN Called("setas", a, Returned([df EXCEPT !.setas = SetRole(@, ix, s)]))

EditFilter ==
    /\ op.name = "new"
    /\ \E rows \in RowSets(df), reset \in BOOLEAN :
         LET a == [func |-> [rows |-> rows], reset |-> reset]
         IN Called("filter", a, Filter(df, a.func, reset))

InitEdit == LoadOff /\ TDIOff /\ MaskOff /\ CopyOff /\ EditInit /\ LaterOff

NextEdit ==
    \/ EditAddColumn
    \/ EditDelColumn
    \/ EditDelAddedColumn
    \/ EditDelRows
    \/ EditInsertRows
    \/ EditRename
    \/ EditReorderColumns
    \/ EditSetRole
    \/ EditFilter

SpecEdit == InitEdit /\ [][NextEdit]_vars

\* ---------------------------------------------------------------------------
\* Claims about the editing methods.

\* The call add_column(data, index=i) with one column of data and nothing else.
PlainAddAt(a) ==
    a.index # None /\ a.cw = 1 /\ ~a.replace /\ ~a.header.given /\ ~a.setas.given

SameShapeHeadersRoles(d, e) ==
    /\ d.r = e.r /\ d.c = e.c
    /\ Len(d.data) = Len(e.data)
    /\ \A i \in 1..Len(d.data) : Len(d.data[i]) = Len(e.data[i])
    /\ d.column_headers = e.column_headers
    /\ d.setas = e.setas

\* C13: for any DataFile and any index i from 0 to the number of columns,
\* add_column(data, index=i) returns normally, del_column(i) after it returns
\* normally, and the shape of the data, the column headers and the roles are
\* then what they were before add_column.
C13_AddThenDelRestores ==
    /\ (op.name = "add_column" /\ PlainAddAt(op.a)) => op.err = "none"
    /\ (op.name = "del_column after add_column" /\ PlainAddAt(op.a)) =>
          op.err = "none" /\ SameShapeHeadersRoles(df, pre)

\* The headers, the roles and the columns of the data are as many, and the mask
\* has the shape of the data.
Consistent(d) ==
    /\ Len(d.data) = d.r
    /\ \A i \in 1..d.r : Len(d.data[i]) = d.c
    /\ Len(d.column_headers) = d.c
    /\ Len(d.setas) = d.c
    /\ Len(d.mask) = Len(d.data)
    /\ \A i \in 1..Len(d.data) : Len(d.mask[i]) = Len(d.data[i])

ColumnAndRowMethods ==
    {"add_column", "del_column", "del_column after add_column", "del_rows",
     "insert_rows", "reorder_columns", "rename"}

\* C14: after a call of add_column, del_column, del_rows, insert_rows,
\* reorder_columns or rename that returns normally, on a DataFile whose headers,
\* roles and data columns are as many and whose mask has the shape of its data, the
\* number of column headers, the number of roles and the number of data columns
\* are equal and the mask has the shape of the data; so it is after any sequence
\* of such calls.
C14_EditsKeepLengths ==
    /\ op.name = "new" => Consistent(df)
    /\ (op.name \in ColumnAndRowMethods /\ op.err = "none") => Consistent(df)

\* A call of add_column that returned with more rows and more columns than before.
C14_Witness ==
    /\ op.name = "add_column" /\ op.err = "none"
    /\ Consistent(df)
    /\ df.r > pre.r /\ df.c > pre.c + 1

Holders(roles, s) == {j \in 1..Len(roles) : roles[j] = s}

RoleMethods ==
    {"setas", "add_column", "del_column", "del_column after add_column",
     "reorder_columns"}

\* C15: after a role assignment, an add_column call (with or without a setas
\* argument), a del_column call or a reorder_columns call (whose column list may
\* name a column more than once) on a DataFile where at most one column holds the
\* role "x", at most one column holds "x"; and a column given "x" holds it alone.
\* So it is after any sequence of such calls.
C15_AtMostOneX ==
    /\ op.name = "new" => Cardinality(Holders(df.setas, "x")) <= 1
    /\ (op.name \in RoleMethods /\ op.err = "none") =>
          Cardinality(Holders(df.setas, "x")) <= 1
    /\ (op.name = "setas" /\ op.a.s = "x") => Holders(df.setas, "x") = {op.a.ix + 1}
    /\ (op.name = "add_column" /\ op.err = "none" /\ op.a.setas.given
            /\ op.a.setas.s[1] = "x") =>
          Holders(df.setas, "x")
             = {(IF op.a.index = None THEN pre.c ELSE op.a.index) + 1}

\* "x" was given to a column while another column held it.
C15_Witness ==
    /\ \/ op.name = "setas" /\ op.a.s = "x"
       \/ /\ op.name = "add_column" /\ op.err = "none"
          /\ op.a.setas.given /\ op.a.setas.s[1] = "x"
       \/ /\ op.name = "reorder_columns" /\ op.err = "none" /\ op.a.setas_too
          /\ \E m, n \in 1..Len(op.a.cols) :
                m # n /\ op.a.cols[m] = op.a.cols[n] /\ pre.setas[op.a.cols[m] + 1] = "x"
    /\ Holders(pre.setas, "x") # {}
    /\ Holders(df.setas, "x") # Holders(pre.setas, "x")
    /\ Cardinality(Holders(df.setas, "x")) = 1

\* What the claim says the cell of row i, column j (1-based) holds after
\* add_column(block, index=ix, replace=rep) on d: the block in the columns from
\* ix on, the old data where it was or moved right by the width of the block, and
\* zero elsewhere.
ExpectedCell(d, a, ix, rep, i, j) ==
    IF j > ix /\ j <= ix + a.cw THEN (IF i <= a.cl THEN a.block[i][j - ix] ELSE 0)
    ELSE LET from == IF rep \/ j <= ix THEN j ELSE j - a.cw
         IN IF i <= d.r /\ from <= d.c THEN d.data[i][from] ELSE 0

\* C16: add_column of a block of cl rows by w columns at column index i on a
\* DataFile of dr > 0 rows by dc > 0 columns returns with max(dr, cl) rows and with
\* dc + w columns when inserting or max(dc, i + w) columns when replacing; the
\* columns i .. i+w-1 hold the block and every cell that neither the old data nor
\* the block supplies is zero.
C16_AddColumnGrowsAndZeroFills ==
    (/\ op.name = "add_column"
     /\ pre.r > 0 /\ pre.c > 0
     /\ op.a.setas.given => Len(op.a.setas.s) = op.a.cw)
    => LET a == op.a
           ix == IF a.index = None THEN pre.c ELSE a.index
           rep == a.replace /\ a.index # None
           rows == Max(pre.r, a.cl)
           cols == IF rep THEN Max(pre.c, ix + a.cw) ELSE pre.c + a.cw
       IN /\ op.err = "none"
          /\ df.r = rows /\ Len(df.data) = rows
          /\ df.c = cols
          /\ \A i \in 1..Len(df.data) :
                /\ Len(df.data[i]) = cols
                /\ \A j \in 1..Len(df.data[i]) :
                      df.data[i][j] = ExpectedCell(pre, a, ix, rep, i, j)

\* C17: del_column given an iterable of booleans with one entry per column deletes
\* exactly the columns whose entry is False and keeps, in their order and with
\* their headers and roles, the columns whose entry is True.
C17_BooleansKeepTrueColumns ==
    (/\ op.name = "del_column"
     /\ op.a.kind = "booleans"
     /\ Len(op.a.list) = pre.c)
    => /\ op.err = "none"
       /\ df.c = Count(op.a.list)
       /\ df.data = [i \in 1..pre.r |-> Pick(pre.data[i], op.a.list)]
       /\ df.column_headers = Pick(pre.column_headers, op.a.list)
       /\ df.setas = Pick(pre.setas, op.a.list)

\* The rows of d (0-based) that the call del_rows(a) with invert=False deletes; the
\* rows of d differ from each other.
DeletedByPlain(d, a) ==
    LET plain == DelRows(d, [a EXCEPT !.invert = FALSE])
    IN {i \in RowIndices(d) : \A k \in 1..Len(plain.d.data) : plain.d.data[k] # d.data[i + 1]}

PlainReturns(d, a) == DelRows(d, [a EXCEPT !.invert = FALSE]).err = "none"

\* C18: for every selector form of del_rows (a single row index, a list of
\* indices, a slice, a predicate over a row, a boolean list, a column with a value,
\* a range or a predicate), the call with invert=True returns normally and keeps
\* exactly the rows that the same call with invert=False deletes.
C18_InvertKeepsWhatPlainDeletes ==
    (/\ op.name = "del_rows"
     /\ op.a.kind # "none"
     /\ op.a.invert
     /\ PlainReturns(pre, op.a))
    => /\ op.err = "none"
       /\ df.data = KeepRows(pre, DeletedByPlain(pre, op.a)).data

\* Every cell of row i (0-based) is masked.
RowMasked(d, i) == \A j \in 1..d.c : d.mask[i + 1][j]

\* No cell of row i (0-based) is masked.
RowUnmasked(d, i) == \A j \in 1..d.c : ~d.mask[i + 1][j]

\* C19: after filter(func, reset=False) every row that was masked before the call
\* is masked and so is every row for which func is false; after
\* filter(func, reset=True) exactly the rows for which func is false are masked.
C19_FilterOrsOrReplaces ==
    op.name = "filter" =>
       /\ op.err = "none"
       /\ \A i \in RowIndices(df) :
             IF op.a.reset
             THEN IF i \in op.a.func.rows THEN RowUnmasked(df, i) ELSE RowMasked(df, i)
             ELSE (RowMasked(pre, i) \/ i \notin op.a.func.rows) => RowMasked(df, i)

\* ---------------------------------------------------------------------------
\* DataFile(dictionary)

\* The keys of a dictionary: the k-th key is a string or is not one.
DictKey(isString, k) == [str |-> isString, id |-> k]

ClassKey == [str |-> TRUE, id |-> 0]

\* What the k-th value holds at position i.
ValueCell(i, k) == 10 * i + k

\* The values of a dictionary: a numpy array of one or two dimensions, a list, or
\* a number.
DictValues(k) ==
    {[type |-> t, ndim |-> 1, len |-> n, vals |-> [i \in 1..n |-> ValueCell(i, k)]] :
        t \in {"ndarray", "list"}, n \in 1..MaxRows}
    \cup {[type |-> "ndarray", ndim |-> 2, len |-> 1, vals |-> <<ValueCell(1, k)>>],
          [type |-> "float", ndim |-> 0, len |-> 0, vals |-> <<ValueCell(1, k)>>]}

DictEntries(k) ==
    {[key |-> DictKey(isString, k), value |-> v] : isString \in BOOLEAN, v \in DictValues(k)}

RECURSIVE DictsOfSize(_)
DictsOfSize(n) ==
    IF n = 0 THEN {<<>>}
    ELSE {Append(d, e) : d \in DictsOfSize(n - 1), e \in DictEntries(n)}

\* The dictionaries of one key or more, in the order of their keys.
Dicts == UNION {DictsOfSize(n) : n \in 1..MaxCols}

\* The DataFile __new__ makes: no data, no headers, no metadata.
EmptyDataFile ==
    [r |-> 0, c |-> 0, data |-> <<>>, mask |-> <<>>, column_headers |-> <<>>,
     setas |-> <<>>, metadata |-> {}]

AllStringKeys(arg) == \A k \in 1..Len(arg) : arg[k].key.str

AllSequences(arg) == \A k \in 1..Len(arg) : arg[k].value.type \in {"ndarray", "list"}

\* all_type(arg.values(), np.ndarray)
AllArrays(arg) == \A k \in 1..Len(arg) : arg[k].value.type = "ndarray"

\* Every value has one dimension and the length of the first value.
EqualColumns(arg) ==
    \A k \in 1..Len(arg) : arg[k].value.ndim = 1 /\ arg[k].value.len = arg[1].value.len

\* _init_single(arg) for a dictionary
InitSingleDict(d, arg) ==
    IF AllStringKeys(arg) /\ AllArrays(arg) /\ EqualColumns(arg)
    THEN [d EXCEPT !.r = arg[1].value.len,
                   !.c = Len(arg),
                   !.data = [i \in 1..arg[1].value.len |->
                                [k \in 1..Len(arg) |-> arg[k].value.vals[i]]],
                   !.mask = Unmasked(arg[1].value.len, Len(arg)),
                   !.setas = FitRoles(d.setas, Len(arg)),
                   !.column_headers = [k \in 1..Len(arg) |-> arg[k].key]]
    ELSE [d EXCEPT !.metadata = {arg[k] : k \in 1..Len(arg)}]

\* self.metadata["Stoner.class"] = self.__class__.__name__
StampClass(d) ==
    [d EXCEPT !.metadata =
        {e \in @ : e.key # ClassKey}
        \cup {[key |-> ClassKey,
               value |-> [type |-> "str", ndim |-> 0, len |-> 0, vals |-> <<"DataFile">>]]}]

\* DataFile(arg) for a dictionary
DataFileFromDict(arg) == StampClass(InitSingleDict(EmptyDataFile, arg))

\* self.xcol: the column that holds "x", or None.
XCol(d) ==
    IF Holders(d.setas, "x") = {} THEN None
    ELSE (CHOOSE j \in Holders(d.setas, "x") : TRUE) - 1

\* self.ycol: the columns that hold "y", in order.
YCol(d) == Pick([j \in 1..d.c |-> j - 1], [j \in 1..d.c |-> d.setas[j] = "y"])

DictInit ==
    /\ df = EmptyDataFile
    /\ pre = EmptyDataFile
    /\ op \in {[name |-> "fresh", arg |-> arg] : arg \in Dicts}

DictConstruct ==
    /\ op.name = "fresh"
    /\ df' = DataFileFromDict(op.arg)
    /\ pre' = df
    /\ op' = [op EXCEPT !.name = "constructed"]
    /\ NotEdit

\* self.setas = "xy"
DictSetSetas ==
    /\ op.name = "constructed"
    /\ df' = [df EXCEPT !.setas = AssignRoles(@, <<"x", "y">>, 0)]
    /\ pre' = df
    /\ op' = [op EXCEPT !.name = "setas"]
    /\ NotEdit

InitDict == LoadOff /\ TDIOff /\ MaskOff /\ CopyOff /\ DictInit /\ LaterOff

NextDict ==
    \/ DictConstruct
    \/ DictSetSetas

SpecDict == InitDict /\ [][NextDict]_vars

\* The dictionary holds columns: every key is a string and every value is a
\* sequence of one of the kinds named, of one dimension and of the length of the
\* first.
IsColumnsOf(kinds, arg) ==
    \A k \in 1..Len(arg) :
       /\ arg[k].key.str
       /\ arg[k].value.type \in kinds
       /\ arg[k].value.ndim = 1
       /\ arg[k].value.len = arg[1].value.len

\* The DataFile has one column per key of arg, in order, under the keys.
HoldsColumns(d, arg) ==
    /\ d.r = arg[1].value.len /\ d.c = Len(arg)
    /\ Len(d.data) = d.r
    /\ \A i \in 1..Len(d.data) : d.data[i] = [k \in 1..Len(arg) |-> arg[k].value.vals[i]]
    /\ d.column_headers = [k \in 1..Len(arg) |-> arg[k].key]

HoldsMetadata(d, arg) ==
    /\ d.r = 0 /\ d.c = 0 /\ d.data = <<>>
    /\ \A k \in 1..Len(arg) : arg[k] \in d.metadata

XYAssigned(d) == d.c = 2 => (XCol(d) = 0 /\ YCol(d) = <<1>>)

\* C20 (as stated): a DataFile constructed from a dict whose keys are all strings
\* and whose values are 1-D sequences of one length has one column per key, in key
\* order, under the keys, and setas "xy" on two such columns gives xcol 0 and
\* ycol [1]; any other dict is stored as metadata and the data stay empty.
C20_DictOfSequencesGivesColumns ==
    op.name \in {"constructed", "setas"} =>
       IF IsColumnsOf({"ndarray", "list"}, op.arg)
       THEN HoldsColumns(df, op.arg) /\ (op.name = "setas" => XYAssigned(df))
       ELSE HoldsMetadata(df, op.arg)

\* C20 (amended): a DataFile constructed from a dict whose keys are all strings
\* and whose values are 1-D numpy arrays of one length has one column per key, in
\* key order, under the keys, and setas "xy" on two such columns gives xcol 0 and
\* ycol [1]; any other dict, one whose values are lists included, is stored as
\* metadata and the data stay empty.
C20_DictOfArraysGivesColumns ==
    op.name \in {"constructed", "setas"} =>
       IF IsColumnsOf({"ndarray"}, op.arg)
       THEN HoldsColumns(df, op.arg) /\ (op.name = "setas" => XYAssigned(df))
       ELSE HoldsMetadata(df, op.arg)

\* {"x": array, "y": array} was made into two columns and given the roles "xy".
C20_Witness ==
    /\ op.name = "setas"
    /\ IsColumnsOf({"ndarray"}, op.arg) /\ Len(op.arg) = 2
    /\ df.r = MaxRows /\ df.c = 2
    /\ XCol(df) = 0 /\ YCol(df) = <<1>>

\* ---------------------------------------------------------------------------
\* ImageStackMixin (src/Stoner/Image/stack.py)

MaxOps == 3         \* calls on one ImageStack

\* The names pages are given and the shapes of the images stored.
PageNames == <<"a", "b", "c">>

ImageShapes == {<<1, 2>>, <<2, 1>>}

NameId(name) == CHOOSE k \in 1..Len(PageNames) : PageNames[k] = name

\* The image stored under a name: its pixels tell the name, the shape and the
\* place of the pixel; none is zero.
ImageOf(name, shape) ==
    LET base == 1000 * NameId(name) + 100 * (2 * shape[1] + shape[2])
    IN [shape |-> shape,
        data |-> [i \in 1..shape[1] |-> [j \in 1..shape[2] |-> base + 10 * i + j]],
        metadata |-> base]

\* seq[i] in Python: i counts from 0, or from the end when negative.
InRange(i, n) == -n <= i /\ i < n

Norm(i, n) == IF i < 0 THEN i + n ELSE i

\* list.insert(ix, x), np.insert(seq, ix, x, axis=0) for 0 <= ix <= len(seq)
InsertAt(seq, ix, x) ==
    LET at == IF ix > Len(seq) THEN Len(seq) ELSE ix
    IN SubSeq(seq, 1, at) \o <<x>> \o SubSeq(seq, at + 1, Len(seq))

\* del seq[ix], np.delete(seq, ix, axis=0) for ix in range
DeleteAt(seq, ix) ==
    LET at == Norm(ix, Len(seq)) + 1
    IN SubSeq(seq, 1, at - 1) \o SubSeq(seq, at + 1, Len(seq))

\* np.ma.zeros((R, C, P))
ZeroStack(R, C, P) ==
    [R |-> R, C |-> C, P |-> P, px |-> [p \in 1..P |-> Zeros(R, C)]]

\* np.atleast_3d(np.ma.MaskedArray([])): an array of shape (1, 0, 1)
EmptyStack == ZeroStack(1, 0, 1)

\* self.__names__(): the keys of self._metadata, in the order they were first set.
Keys(s) == [k \in 1..Len(s._metadata) |-> s._metadata[k].name]

\* self._metadata[name] = md
SetMetadata(md, name, value) ==
    IF \E k \in 1..Len(md) : md[k].name = name
    THEN [k \in 1..Len(md) |-> IF md[k].name = name THEN [name |-> name, md |-> value]
                                ELSE md[k]]
    ELSE Append(md, [name |-> name, md |-> value])

\* max_size
MaxSize(sizes) ==
    IF sizes = <<>> THEN <<0, 0>>
    ELSE <<CHOOSE r \in {sizes[k][1] : k \in 1..Len(sizes)} :
               \A k \in 1..Len(sizes) : sizes[k][1] <= r,
           CHOOSE c \in {sizes[k][2] : k \in 1..Len(sizes)} :
               \A k \in 1..Len(sizes) : sizes[k][2] <= c>>

\* _resize_stack(new_size)
ResizeStack(st, R, C, P) ==
    IF st.R = R /\ st.C = C /\ st.P = P THEN st
    ELSE [R |-> R, C |-> C, P |-> P,
          px |-> [p \in 1..P |-> [i \in 1..R |-> [j \in 1..C |->
                    IF p <= st.P /\ i <= st.R /\ j <= st.C THEN st.px[p][i][j] ELSE 0]]]]

\* self._stack[:row, :col, ix] = value, for a page ix that is there
StorePage(st, ix, value) ==
    [st EXCEPT !.px[Norm(ix, st.P) + 1] =
        [i \in 1..st.R |-> [j \in 1..st.C |->
            IF i <= value.shape[1] /\ j <= value.shape[2] THEN value.data[i][j] ELSE @[i][j]]]]

StackFailed(s, err) == [err |-> err, s |-> s]

StackDone(s) == [err |-> "none", s |-> s]

\* __inserter__(ix, name, value), 0 <= ix
Inserter(s, ix, name, value) ==
    LET named == [s EXCEPT !._names = InsertAt(@, ix, name),
                           !._metadata = SetMetadata(@, name, value.metadata)]
        sizes == InsertAt(s._sizes, ix, value.shape)
        size == MaxSize(sizes)
        pag == Len(named._names)
        resized == ResizeStack(s._stack, size[1], size[2], pag)
        grown == [resized EXCEPT !.P = @ + 1,
                                 !.px = InsertAt(@, ix, Zeros(size[1], size[2]))]
        sized == [named EXCEPT !._sizes = sizes]
    IN IF ix > Len(s._sizes) THEN StackFailed(named, "IndexError")
       ELSE IF ix > pag THEN StackFailed([sized EXCEPT !._stack = resized], "IndexError")
       ELSE StackDone([sized EXCEPT !._stack = StorePage(grown, ix, value)])

\* __lookup__(name): key.kind is "int" (key.i) or "name" (key.name)
Lookup(s, key) ==
    IF key.kind = "int"
    THEN IF InRange(key.i, s._stack.P) THEN [err |-> "none", idx |-> key.i]
         ELSE [err |-> "KeyError", idx |-> 0]
    ELSE IF \E k \in 1..Len(s._metadata) : s._metadata[k].name = key.name
         THEN [err |-> "none",
               idx |-> (CHOOSE k \in 1..Len(s._metadata) : s._metadata[k].name = key.name) - 1]
         ELSE [err |-> "KeyError", idx |-> 0]

\* len(self)
LenOf(s) == Len(Keys(s))

\* __setter__(name, value) for a name that is a string
Setter(s, name, value) ==
    LET found == Lookup(s, [kind |-> "name", name |-> name])
        pos == found.idx
        sized == [s EXCEPT !._sizes[pos + 1] = value.shape]
        stored == [sized EXCEPT !._metadata = SetMetadata(@, name, value.metadata)]
        pag == Len(stored._sizes)
        size == MaxSize(stored._sizes)
        resized == [stored EXCEPT !._stack = ResizeStack(@, size[1], size[2], pag)]
    IN IF found.err # "none" THEN Inserter(s, LenOf(s), name, value)
       ELSE IF pos >= Len(s._sizes) THEN StackFailed(s, "IndexError")
       ELSE IF pos >= pag THEN StackFailed(resized, "IndexError")
       ELSE StackDone([resized EXCEPT !._stack = StorePage(@, pos, value)])

\* __deleter__(ix)
Deleter(s, key) ==
    LET found == Lookup(s, key)
        pos == found.idx
        keys == Keys(s)
        unkeyed == [s EXCEPT !._metadata = DeleteAt(@, pos)]
        unstacked == [unkeyed EXCEPT !._stack.P = @ - 1,
                                     !._stack.px = DeleteAt(@, pos)]
        unnamed == [unstacked EXCEPT !._names = DeleteAt(@, pos)]
    IN IF found.err # "none" THEN StackFailed(s, "KeyError")
       ELSE IF ~InRange(pos, Len(keys)) THEN StackFailed(s, "IndexError")
       ELSE IF ~InRange(pos, s._stack.P) THEN StackFailed(unkeyed, "IndexError")
       ELSE IF ~InRange(pos, Len(s._names)) THEN StackFailed(unstacked, "IndexError")
       ELSE IF key.kind # "int" \/ ~InRange(key.i, Len(s._sizes))
       THEN StackFailed(unnamed, "IndexError")
       ELSE StackDone([unnamed EXCEPT !._sizes = DeleteAt(@, key.i)])

\* __clear__()
Clear(s) == StackDone([s EXCEPT !._metadata = <<>>, !._stack = EmptyStack])

\* _instantiate(idx): the page cut to its recorded size, with its metadata
Instantiate(s, at) ==
    IF ~InRange(at, Len(s._sizes)) \/ ~InRange(at, s._stack.P)
       \/ ~InRange(at, LenOf(s))
    THEN [err |-> "IndexError"]
    ELSE LET size == s._sizes[Norm(at, Len(s._sizes)) + 1]
             r == Min(size[1], s._stack.R)
             c == Min(size[2], s._stack.C)
             page == s._stack.px[Norm(at, s._stack.P) + 1]
         IN [err |-> "none",
             shape |-> <<r, c>>,
             data |-> [i \in 1..r |-> [j \in 1..c |-> page[i][j]]],
             metadata |-> s._metadata[Norm(at, LenOf(s)) + 1].md]

\* __getter__(name)
Getter(s, key) ==
    LET found == Lookup(s, key)
    IN IF found.err # "none" THEN [err |-> "KeyError"] ELSE Instantiate(s, found.idx)

\* ImageStack(): nothing stored.
NewStack ==
    [_stack |-> EmptyStack, _names |-> <<>>, _sizes |-> <<>>, _metadata |-> <<>>,
     type |-> "ImageFile"]

\* ImageStack(array) for an array of n images of one shape, named in order.
StackFromArray(n, shape) ==
    [_stack |-> [R |-> shape[1], C |-> shape[2], P |-> n,
                 px |-> [p \in 1..n |-> ImageOf(PageNames[p], shape).data]],
     _names |-> SubSeq(PageNames, 1, n),
     _sizes |-> [p \in 1..n |-> shape],
     _metadata |-> [p \in 1..n |-> [name |-> PageNames[p], md |-> 0]],
     type |-> "ImageFile"]

\* self.append(ot) for each image of the list, from image k on
RECURSIVE AppendAll(_, _, _)
AppendAll(s, shapes, k) ==
    IF k > Len(shapes) THEN s
    ELSE AppendAll(Setter(s, PageNames[k], ImageOf(PageNames[k], shapes[k])).s, shapes, k + 1)

\* ImageStack(list): the images appended, then del self[-1]
StackFromList(shapes) == Deleter(AppendAll(NewStack, shapes, 1), [kind |-> "int", i |-> -1]).s

ShapeLists == UNION {[1..n -> ImageShapes] : n \in 1..2}

\* The type of the images get returns: ImageFile, or a subclass of ImageArray.
StackTypes == {"ImageFile", "ImageArray"}

StackInit ==
    /\ \E t \in StackTypes :
          images \in {[s EXCEPT !.type = t] :
                         s \in {NewStack}
                               \cup {StackFromArray(n, shape) : n \in 1..2, shape \in ImageShapes}
                               \cup {StackFromList(shapes) : shapes \in ShapeLists}}
    /\ before = images
    /\ did = [name |-> "new", err |-> "none", n |-> 0]

NotImages == UNCHANGED <<loadVars, tdiVars, maskVars, copyVars, editVars, fnVars, openVars>>

\* The state after a call on the ImageStack that ended as res says.
StackCalled(name, a, res) ==
    /\ did.n < MaxOps
    /\ images' = res.s
    /\ before' = images
    /\ did' = [name |-> name, a |-> a, err |-> res.err, n |-> did.n + 1]
    /\ NotImages

Known(s) == Range(Keys(s)) \cup Range(s._names)

\* A name no page has yet.
IsNewName(s, name) ==
    /\ name \notin Known(s)
    /\ \A k \in 1..Len(PageNames) : k < NameId(name) => PageNames[k] \in Known(s)

\* self[name] = image for a new name
StackAppend ==
    \E name \in Range(PageNames), shape \in ImageShapes :
       /\ IsNewName(images, name)
       /\ LET a == [key |-> name, ix |-> LenOf(images), value |-> ImageOf(name, shape)]
          IN StackCalled("append", a, Setter(images, name, a.value))

\* insert(ix, image) under a new name
StackInsert ==
    \E name \in Range(PageNames), shape \in ImageShapes, ix \in 0..Len(images._names) :
       /\ IsNewName(images, name)
       /\ ix < LenOf(images)
       /\ LET a == [key |-> name, ix |-> ix, value |-> ImageOf(name, shape)]
          IN StackCalled("insert", a, Inserter(images, ix, name, a.value))

\* self[name] = image for the name of a page
StackOverwrite ==
    \E name \in Range(Keys(images)), shape \in ImageShapes :
       LET a == [key |-> name, ix |-> Lookup(images, [kind |-> "name", name |-> name]).idx,
                 value |-> ImageOf(name, shape)]
       IN StackCalled("overwrite", a, Setter(images, name, a.value))

StackKeys(s) ==
    {[kind |-> "name", name |-> name] : name \in Range(Keys(s))}
    \cup {[kind |-> "int", i |-> i] : i \in -1..s._stack.P}

\* del self[key]
StackDelete ==
    \E key \in StackKeys(images) :
       StackCalled("delete", [key |-> key], Deleter(images, key))

StackClear ==
    /\ did.name # "off"
    /\ StackCalled("clear", [key |-> "all"], Clear(images))

\* self[key]: the image _instantiate builds.  For a subclass of ImageArray it is a
\* view of the buffer; otherwise the pixels are handed to the data setter of the
\* type, which makes the image a value of its own.
StackGet ==
    /\ did.n < MaxOps
    /\ did.name \notin {"get", "edit"}
    /\ \E key \in StackKeys(images) :
          LET got == Getter(images, key)
          IN did' = [name |-> "get", a |-> [key |-> key], err |-> got.err, n |-> did.n + 1,
                     got |-> got, view |-> images.type = "ImageArray"]
    /\ before' = images
    /\ UNCHANGED images
    /\ NotImages

\* The pixel written through the returned image.
Ink == 7

\* image[0, 0] = Ink; image.metadata = Ink, on the image self[key] returned
StackEditGot ==
    /\ did.name = "get" /\ did.err = "none"
    /\ did.got.shape[1] > 0 /\ did.got.shape[2] > 0
    /\ LET at == Norm(Lookup(images, did.a.key).idx, images._stack.P) + 1
       IN images' = IF did.view
                    THEN [images EXCEPT !._stack.px[at][1][1] = Ink]
                    ELSE images
    /\ did' = [did EXCEPT !.name = "edit",
                          !.got.data[1][1] = Ink,
                          !.got.metadata = Ink]
    /\ UNCHANGED before
    /\ NotImages

InitStack == LoadOff /\ TDIOff /\ MaskOff /\ CopyOff /\ EditOff /\ StackInit /\ FnOff /\ OpenOff

NextStack ==
    \/ StackAppend
    \/ StackInsert
    \/ StackOverwrite
    \/ StackDelete
    \/ StackClear
    \/ StackGet
    \/ StackEditGot

SpecStack == InitStack /\ [][NextStack]_vars


\* ---------------------------------------------------------------------------
\* Claims about the ImageStack

StoreCalls == {"append", "insert", "overwrite"}

NameKey(name) == [kind |-> "name", name |-> name]

\* The call on the stack returned without raising.
StackReturned(names) == did.name \in names /\ did.err = "none"

\* The four lengths the stack keeps for its pages.
Lengths(s) == <<Len(s._names), Len(s._sizes), Len(s._metadata), s._stack.P>>

\* C21: after construction from an array or a list of images, and after every
\* append, insert, overwrite, delete and clear that returns, the list of names,
\* the table of sizes, the metadata keys and the page dimension of the buffer
\* all have the same length.
C21_ListsSameLength ==
    (StackReturned(StoreCalls \cup {"delete", "clear"})
       \/ (did.name = "new" /\ images._names # <<>>))
    => \E n \in 0..(MaxOps + 3) : Lengths(images) = <<n, n, n, n>>

\* C22: after self[name] = image returns (append, insert at a position or
\* overwrite), self[name] is that image: its shape, its pixels and its metadata.
C22_GetReturnsWhatWasSet ==
    StackReturned(StoreCalls)
    => LET got == Getter(images, NameKey(did.a.key))
       IN /\ got.err = "none"
          /\ got.shape = did.a.value.shape
          /\ got.data = did.a.value.data
          /\ got.metadata = did.a.value.metadata

\* C23: after an append, insert or overwrite returns, self[p] of every page p
\* other than the one stored is the image it was before the call.
C23_StoreKeepsOtherPages ==
    StackReturned(StoreCalls)
    => \A name \in Range(Keys(before)) \ {did.a.key} :
          Getter(before, NameKey(name)).err = "none"
          => Getter(images, NameKey(name)) = Getter(before, NameKey(name))

\* The name, size, metadata and slice of page j, counted from 0.
PageAt(s, j) ==
    IF j < Len(s._names) /\ j < Len(s._sizes) /\ j < s._stack.P
       /\ (\E k \in 1..Len(s._metadata) : s._metadata[k].name = s._names[j + 1])
    THEN [name |-> s._names[j + 1],
          size |-> s._sizes[j + 1],
          px |-> s._stack.px[j + 1],
          md |-> (CHOOSE e \in Range(s._metadata) : e.name = s._names[j + 1]).md]
    ELSE [name |-> "none"]

\* C24: del self[key] that returns removes one page: its name, size, metadata
\* and slice, the pages after it moving down one place unchanged; del self[key]
\* that raises removes nothing.
C24_DeleteIsOneStep ==
    did.name = "delete"
    => IF did.err = "none"
       THEN LET at == Norm(Lookup(before, did.a.key).idx, Len(before._names))
            IN /\ \A k \in 1..4 : Lengths(images)[k] = Lengths(before)[k] - 1
               /\ \A j \in 0..(Len(before._names) - 1) :
                     /\ j < at => PageAt(images, j) = PageAt(before, j)
                     /\ j > at => PageAt(images, j - 1) = PageAt(before, j)
       ELSE images = before

\* C25: self.__lookup__(i) for an integer i succeeds exactly when i is the index
\* of a page, counted from the front or from the end.
C25_IntegerLookupChecksPages ==
    did.name \in StoreCalls \cup {"new", "delete", "clear"} /\ did.err = "none"
    => \A i \in -(MaxOps + 4)..(MaxOps + 4) :
          Lookup(images, [kind |-> "int", i |-> i]).err = "none"
          <=> InRange(i, Len(images._names))

\* C26: writing a pixel and the metadata of the image self[key] returned leaves
\* the buffer and the metadata of the stack as they were.
C26_GetReturnsStandaloneImage ==
    did.name = "edit" => images = before


\* ---------------------------------------------------------------------------
\* ImageStackMixin.__floordiv__ (src/Stoner/Image/stack.py)

MaxPix == 2         \* pixels of one stack buffer

\* The dtypes of the buffers, their kinds and the largest value of the integer ones.
DivDTypes == {"uint8", "uint16", "int16", "float32", "float64"}

DTypeKind(dtype) ==
    IF dtype \in {"float32", "float64"} THEN "f"
    ELSE IF dtype = "int16" THEN "i" ELSE "u"

IMax(dtype) == IF dtype = "uint8" THEN 255 ELSE IF dtype = "uint16" THEN 65535 ELSE 32767

\* Pixel values, positive so that no sum of two is zero.
DivValues == {1, 2, 3}

RECURSIVE GCD(_, _)
GCD(a, b) == IF b = 0 THEN a ELSE GCD(b, a % b)

\* The number n / d, d > 0, in lowest terms.
Frac(n, d) ==
    LET g == GCD(IF n < 0 THEN -n ELSE n, d)
    IN [n |-> n \div g, d |-> d \div g]

\* x - y, x + y and x / y of two numbers (x / y for y > 0), over the least
\* common denominator
FracSub(x, y) ==
    LET g == GCD(x.d, y.d)
    IN Frac(x.n * (y.d \div g) - y.n * (x.d \div g), (x.d \div g) * y.d)

FracAdd(x, y) ==
    LET g == GCD(x.d, y.d)
    IN Frac(x.n * (y.d \div g) + y.n * (x.d \div g), (x.d \div g) * y.d)

FracDiv(x, y) ==
    LET g == GCD(x.d, y.d)
    IN Frac(x.n * (y.d \div g), (x.d \div g) * y.n)

\* A stack as __floordiv__ reads it: the dtype and the pixels of its buffer.
DivStacks ==
    {[dtype |-> dtype, px |-> [k \in 1..MaxPix |-> Frac(v[k], 1)]] :
        dtype \in DivDTypes, v \in [1..MaxPix -> DivValues]}

\* self.clone: another object with the same buffer contents
CloneAs(objs, from, to) == (to :> objs[from]) @@ objs

\* convert(float): an integer buffer becomes floats scaled by the largest value
\* of its type; a float buffer keeps its values.
ConvertFloat(objs, id) ==
    [objs EXCEPT ![id] =
        [dtype |-> "float64",
         px |-> IF DTypeKind(@.dtype) = "f" THEN @.px
                ELSE [k \in 1..Len(@.px) |-> Frac(@.px[k].n, @.px[k].d * IMax(@.dtype))]]]

KindsDiffer(a, b) == DTypeKind(a.dtype) # DTypeKind(b.dtype)

\* self._stack.dtype != other._stack.dtype
DTypesDiffer(a, b) == a.dtype # b.dtype

\* (ret._stack - other._stack) / (ret._stack + other._stack)
XMCD(a, b) ==
    [k \in 1..Len(a.px) |-> FracDiv(FracSub(a.px[k], b.px[k]), FracAdd(a.px[k], b.px[k]))]

\* __floordiv__(self, other) on the objects "self" and "other"
FloorDiv(objs) ==
    IF DTypesDiffer(objs["self"], objs["other"])
    THEN [err |-> "ValueError", objs |-> objs]
    ELSE IF DTypeKind(objs["self"].dtype) # "f"
    THEN LET mine == ConvertFloat(CloneAs(objs, "self", "ret"), "ret")
             both == ConvertFloat(CloneAs(mine, "other", "other'"), "other'")
         IN [err |-> "none", value |-> "ret",
             objs |-> [both EXCEPT !["ret"].px = XMCD(both["ret"], both["other'"])]]
    ELSE LET mine == CloneAs(objs, "self", "ret")
         IN [err |-> "none", value |-> "ret",
             objs |-> [mine EXCEPT !["ret"].px = XMCD(mine["ret"], mine["other"])]]

DivInit ==
    /\ \E a \in DivStacks, b \in DivStacks :
          args = [fn |-> "floordiv", objs |-> [self |-> a, other |-> b]]
    /\ ret = [pc |-> "ready"]

NotFn == UNCHANGED <<loadVars, tdiVars, maskVars, copyVars, editVars, imageVars, openVars>>

\* A // B
FloorDivCall ==
    /\ args.fn = "floordiv" /\ ret.pc = "ready"
    /\ ret' = [pc |-> "done", out |-> FloorDiv(args.objs)]
    /\ UNCHANGED args
    /\ NotFn

InitDiv == LoadOff /\ TDIOff /\ MaskOff /\ CopyOff /\ EditOff /\ ImagesOff /\ DivInit /\ OpenOff

NextDiv ==
    \/ FloorDivCall

SpecDiv == InitDiv /\ [][NextDiv]_vars

DivDone == args # <<>> /\ args.fn = "floordiv" /\ ret.pc = "done"

\* (A - B) / (A + B) of the two buffers as they were given
RatioOfArgs ==
    [k \in 1..MaxPix |->
        LET a == args.objs["self"].px[k].n
            b == args.objs["other"].px[k].n
        IN Frac(a - b, a + b)]

\* A and B are the objects they were, and the result is neither of them.
DivLeavesOperands ==
    /\ ret.out.objs["self"] = args.objs["self"]
    /\ ret.out.objs["other"] = args.objs["other"]
    /\ ret.out.value \notin {"self", "other"}

\* C27 as stated: A // B raises TypeError when the kinds of the two buffers
\* differ and neither is floating point, and for two buffers of the same kind
\* returns a new stack holding (A - B) / (A + B), A and B unchanged.
C27_TypeErrorOnDifferentKinds ==
    DivDone
    => LET ka == DTypeKind(args.objs["self"].dtype)
           kb == DTypeKind(args.objs["other"].dtype)
       IN /\ (ka # kb /\ ka # "f" /\ kb # "f") => ret.out.err = "TypeError"
          /\ ka = kb => /\ ret.out.err = "none"
                        /\ ret.out.objs[ret.out.value].px = RatioOfArgs
                        /\ DivLeavesOperands

\* C27 amended: A // B raises ValueError when the dtypes of the two buffers
\* differ, and for two buffers of the same dtype returns a new stack holding
\* (A - B) / (A + B), A and B unchanged.
C27_ValueErrorOnDifferentDTypes ==
    DivDone
    => IF args.objs["self"].dtype # args.objs["other"].dtype
       THEN ret.out.err = "ValueError"
       ELSE /\ ret.out.err = "none"
            /\ ret.out.objs[ret.out.value].px = RatioOfArgs
            /\ DivLeavesOperands

C27_Witness ==
    /\ DivDone
    /\ args.objs["self"].dtype = "uint8" /\ args.objs["other"].dtype = "uint8"
    /\ ret.out.err = "none"
    /\ ret.out.objs["ret"].px = <<Frac(1, 2), Frac(-1, 5)>>


\* ---------------------------------------------------------------------------
\* DataFile.save: the name of the file written (src/Stoner/Core.py)

MaxName == 4        \* pieces of one filename

\* A filename is the sequence of its pieces: a letter, the dot, the path
\* separator, or the letters of an extension.
NameTokens == {"a", ".", "/", "txt", "tdi", "dat"}

FileNames == UNION {[1..n -> NameTokens] : n \in 1..MaxName}

\* filename=None
NoFilename == <<"None">>

\* DataFile._patterns
Patterns == <<<<"*", ".", "txt">>, <<"*", ".", "tdi">>>>

\* str.rfind: the last place of a piece, or 0
LastIndex(p, tok) ==
    IF \E k \in 1..Len(p) : p[k] = tok
    THEN CHOOSE k \in 1..Len(p) : p[k] = tok /\ \A l \in (k + 1)..Len(p) : p[l] # tok
    ELSE 0

\* os.path.splitext(p): the extension starts at the last dot of the last path
\* component, leading dots of the component not counted, and includes the dot.
SplitExt(p) ==
    LET sep == LastIndex(p, "/")
        dot == LastIndex(p, ".")
    IN IF dot > sep /\ \E k \in (sep + 1)..(dot - 1) : p[k] # "."
       THEN [root |-> SubSeq(p, 1, dot - 1), ext |-> SubSeq(p, dot, Len(p))]
       ELSE [root |-> p, ext |-> <<>>]

\* Normalise the extension to ensure it's something we like...
NormaliseName(filename) ==
    LET split == SplitExt(filename)
        ext == IF <<"*", ".">> \o split.ext \notin Range(Patterns)
               THEN SubSeq(Patterns[1], 3, Len(Patterns[1]))
               ELSE split.ext
    IN split.root \o <<".">> \o ext

\* save(filename) without as_loaded, on an instance that has a filename
Save(inst, filename) ==
    LET given == IF filename = NoFilename THEN inst.filename ELSE filename
        name == NormaliseName(given)
    IN [inst |-> [inst EXCEPT !.filename = name],
        files |-> (name :> SavedLines(inst.d))]

SaveInit ==
    /\ \E filename \in FileNames \cup {NoFilename},
          mine \in {<<"a", ".", "dat">>, <<"a", ".", "tdi">>}, r \in 0..1 :
          args = [fn |-> "save", filename |-> filename,
                  inst |-> [filename |-> mine, d |-> MakeDataFile(r, 1, {}, "asc", 1)]]
    /\ ret = [pc |-> "ready"]

\* d.save(filename)
SaveCall ==
    /\ args.fn = "save" /\ ret.pc = "ready"
    /\ ret' = [pc |-> "done", out |-> Save(args.inst, args.filename)]
    /\ UNCHANGED args
    /\ NotFn

InitSave == LoadOff /\ TDIOff /\ MaskOff /\ CopyOff /\ EditOff /\ ImagesOff /\ SaveInit /\ OpenOff

NextSave ==
    \/ SaveCall

SpecSave == InitSave /\ [][NextSave]_vars

SaveDone == args # <<>> /\ args.fn = "save" /\ ret.pc = "done"

\* The filename save works on: the argument, or self.filename for None.
NameGiven == IF args.filename = NoFilename THEN args.inst.filename ELSE args.filename

\* C28: save(filename) without as_loaded keeps a filename whose extension is
\* ".txt" or ".tdi" as given and replaces any other extension by "txt"; the
\* name so normalised is the one file written and the new self.filename.
C28_SaveKeepsKnownExtensions ==
    SaveDone
    => LET split == SplitExt(NameGiven)
           name == IF split.ext \in {<<".", "txt">>, <<".", "tdi">>}
                   THEN NameGiven
                   ELSE split.root \o <<".", "txt">>
       IN /\ DOMAIN ret.out.files = {name}
          /\ ret.out.inst.filename = name


\* ---------------------------------------------------------------------------
\* DataFile._interesting_cols (src/Stoner/Core.py)

MaxWide == 5        \* columns of the DataFile displayed

\* for ix, typ in enumerate(self.setas): the columns with a role, a -1 after
\* each run of them
RECURSIVE ScanSetas(_, _, _, _)
ScanSetas(setas, ix, last, interesting) ==
    IF ix >= Len(setas) THEN interesting
    ELSE LET broke == last # -1 /\ last # ix - 1
             marked == IF broke THEN Append(interesting, -1) ELSE interesting
             seen == IF broke THEN -1 ELSE last
         IN IF setas[ix + 1] # "."
            THEN ScanSetas(setas, ix + 1, ix, Append(marked, ix))
            ELSE ScanSetas(setas, ix + 1, seen, marked)

\* max(interesting)
MaxOf(seq) == CHOOSE v \in Range(seq) : \A w \in Range(seq) : w <= v

\* f"{i} ({self.setas[i]})", f"{i}" or ""
ColAssignment(setas, i) ==
    IF i = -1 THEN <<>>
    ELSE IF setas[i + 1] # "." THEN <<i, setas[i + 1]>> ELSE <<i>>

\* _interesting_cols(cols) of a DataFile whose columns have the roles setas
InterestingCols(setas, cols) ==
    LET c == Len(setas)
        runs == ScanSetas(setas, 0, -1, <<>>)
        trimmed == IF runs # <<>> /\ runs[Len(runs)] = -1
                   THEN SubSeq(runs, 1, Len(runs) - 1) ELSE runs
        c_start == IF trimmed # <<>> THEN MaxOf(trimmed) + 1 ELSE 0
        full == trimmed \o [k \in 1..(c - c_start) |-> c_start + k - 1]
        n == IF Len(full) < cols THEN Len(full) ELSE cols
        elided == IF full[Norm(n - 3, Len(full)) + 1] # -1
                  THEN [full EXCEPT ![Norm(n - 2, Len(full)) + 1] = -1]
                  ELSE [full EXCEPT ![Norm(n - 2, Len(full)) + 1] = c - 2]
        ended == [elided EXCEPT ![Norm(n - 1, Len(full)) + 1] = c - 1]
        interesting == IF c > cols THEN SubSeq(ended, 1, n)
                       ELSE [k \in 1..c |-> k - 1]
    IN IF c > cols /\ (~InRange(n - 3, Len(full)) \/ ~InRange(n - 2, Len(full))
                        \/ ~InRange(n - 1, Len(full)))
       THEN [err |-> "IndexError"]
       ELSE [err |-> "none",
             interesting |-> interesting,
             col_assignments |-> [k \in 1..Len(interesting) |->
                                     ColAssignment(setas, interesting[k])],
             cols |-> IF c > cols THEN n ELSE cols]

ColsInit ==
    /\ \E c \in 1..MaxWide, cols \in 1..MaxWide :
          \E setas \in [1..c -> Roles] :
             args = [fn |-> "_interesting_cols", setas |-> setas, cols |-> cols]
    /\ ret = [pc |-> "ready"]

\* d._interesting_cols(cols)
InterestingColsCall ==
    /\ args.fn = "_interesting_cols" /\ ret.pc = "ready"
    /\ ret' = [pc |-> "done", out |-> InterestingCols(args.setas, args.cols)]
    /\ UNCHANGED args
    /\ NotFn

InitCols == LoadOff /\ TDIOff /\ MaskOff /\ CopyOff /\ EditOff /\ ImagesOff /\ ColsInit /\ OpenOff

NextCols ==
    \/ InterestingColsCall

SpecCols == InitCols /\ [][NextCols]_vars

ColsDone == args # <<>> /\ args.fn = "_interesting_cols" /\ ret.pc = "done"

\* C29: for more columns than the display limit and any roles on them,
\* _interesting_cols returns a list of at most cols entries, each -1 or the
\* index of a column, the last of them the index of the last column.
C29_InterestingColsReturnsShortList ==
    (ColsDone /\ Len(args.setas) > args.cols)
    => /\ ret.out.err = "none"
       /\ Len(ret.out.interesting) <= args.cols
       /\ \A k \in 1..Len(ret.out.interesting) :
             ret.out.interesting[k] \in -1..(Len(args.setas) - 1)
       /\ ret.out.interesting # <<>>
       /\ ret.out.interesting[Len(ret.out.interesting)] = Len(args.setas) - 1


\* ---------------------------------------------------------------------------
\* _open_filename (src/Stoner/formats/attocube.py)

MaxParts == 3       \* parts of the filename between path separators
MaxShift == 2       \* the signature is looked for at 512 * 2^c, c <= MaxShift

\* The names after the first path separator.
PartNames == {"g", "h"}

RECURSIVE Pow2(_)
Pow2(k) == IF k = 0 THEN 1 ELSE 2 * Pow2(k - 1)

\* Where the file may hold the HDF5 signature block, and how long it may be.
Offsets == {0} \cup {512 * Pow2(k) : k \in 0..MaxShift}

FileSizes == {0, 4} \cup {o + 8 : o \in Offsets} \cup {o + 12 : o \in Offsets}

\* What the first part of the filename names on disk: nothing, a directory with
\* some entries, or a file of some size with the signature at some offsets that
\* h5py can open or not.
FileSystems ==
    {[kind |-> "missing", children |-> {}, size |-> 0, sigs |-> {}, h5ok |-> FALSE]}
    \cup {[kind |-> "dir", children |-> ch, size |-> 0, sigs |-> {}, h5ok |-> FALSE] :
            ch \in SUBSET PartNames}
    \cup {[kind |-> "file", children |-> {}, size |-> size, sigs |-> sigs, h5ok |-> ok] :
            size \in FileSizes, sigs \in SUBSET Offsets, ok \in BOOLEAN}

\* sniff.seek(at); blk = sniff.read(8): the block read and sniff.tell() after it
ReadBlock(fs, at) ==
    LET len == Min(8, Max(0, fs.size - at))
    IN [len |-> len, sig |-> len = 8 /\ at \in fs.sigs, pos |-> at + len]

\* parts = filename.split(pathsep); filename = parts.pop(0); group = ""
OpenInit ==
    \E fs \in FileSystems, n \in 0..(MaxParts - 1) :
       /\ fs.kind = "file" => \A o \in fs.sigs : o + 8 <= fs.size
       /\ \E parts \in [1..n -> PartNames] :
             opening = [pc |-> "parts", fs |-> fs, parts |-> parts, group |-> <<>>,
                        c |-> 0, pos |-> 0, blk |-> [len |-> 0, sig |-> FALSE]]

NotOpening == UNCHANGED <<loadVars, tdiVars, maskVars, copyVars, editVars, imageVars, fnVars>>

\* The test of `while len(parts) > 0` when it holds
OpenTest ==
    /\ opening.pc = "parts"
    /\ opening.parts # <<>>
    /\ opening' = [opening EXCEPT !.pc = "turn"]
    /\ NotOpening

\* The body of the loop: a first part that is not on disk under filename sets
\* group and leaves parts as it is; one that is, is popped.
OpenParts ==
    /\ opening.pc = "turn"
    /\ opening' = IF opening.parts[1] \notin opening.fs.children
                  THEN [opening EXCEPT !.group = opening.parts, !.pc = "parts"]
                  ELSE [opening EXCEPT !.parts = Tail(@), !.pc = "parts"]
    /\ NotOpening

\* open(filename, "rb") and the first block read
OpenSniff ==
    /\ opening.pc = "parts"
    /\ opening.parts = <<>>
    /\ opening' = IF opening.fs.kind = "missing"
                  THEN [opening EXCEPT !.pc = "FileNotFoundError"]
                  ELSE IF opening.fs.kind = "dir"
                  THEN [opening EXCEPT !.pc = "IsADirectoryError"]
                  ELSE LET blk == ReadBlock(opening.fs, 0)
                       IN [opening EXCEPT !.blk = [len |-> blk.len, sig |-> blk.sig],
                                          !.pos = blk.pos,
                                          !.pc = IF blk.sig THEN "h5" ELSE "scan"]
    /\ NotOpening

\* One turn of `while sniff.tell() < size and len(blk) == 8`, or its else clause
OpenScan ==
    /\ opening.pc = "scan"
    /\ opening' = IF opening.pos < opening.fs.size /\ opening.blk.len = 8
                  THEN LET blk == ReadBlock(opening.fs, 512 * Pow2(opening.c))
                       IN [opening EXCEPT !.c = @ + 1,
                                          !.blk = [len |-> blk.len, sig |-> blk.sig],
                                          !.pos = blk.pos,
                                          !.pc = IF blk.sig THEN "h5" ELSE "scan"]
                  ELSE [opening EXCEPT !.pc = "StonerLoadError"]
    /\ NotOpening

\* f = h5py.File(filename, "r+") and the walk down group; an IOError is handled
\* by _raise_error(f, ...) with f not yet assigned.
OpenH5 ==
    /\ opening.pc = "h5"
    /\ opening' = IF ~opening.fs.h5ok
                  THEN [opening EXCEPT !.pc = "UnboundLocalError"]
                  ELSE IF opening.group # <<>>
                  THEN [opening EXCEPT !.pc = "StonerLoadError"]
                  ELSE [opening EXCEPT !.pc = "opened"]
    /\ NotOpening

InitOpen == LoadOff /\ TDIOff /\ MaskOff /\ CopyOff /\ EditOff /\ ImagesOff /\ FnOff /\ OpenInit

NextOpen ==
    \/ OpenTest
    \/ OpenParts
    \/ OpenSniff
    \/ OpenScan
    \/ OpenH5

\* The interpreter keeps running the function it has started.
SpecOpen == InitOpen /\ [][NextOpen]_vars /\ WF_vars(NextOpen)

\* The call has returned or raised.
OpenEnded ==
    opening.pc \in {"opened", "StonerLoadError", "FileNotFoundError",
                    "IsADirectoryError", "UnboundLocalError"}

\* C30: _open_filename terminates for every filename: the loop over the parts
\* of the name and the loop over the signature offsets both finish, and the
\* call ends, with the group opened or with an exception raised.
C30_OpenFilenameTerminates == <>OpenEnded

=============================================================================
